---- MODULE Spec2Model ----
(***************************************************************************)
(* Model of the server-sent-events core of AsyncWebServer_WT32_ETH01       *)
(* (src/src/AsyncEventSource.cpp): AsyncEventSourceMessage,                *)
(* AsyncEventSourceClient and the client list of AsyncEventSource.         *)
(*                                                                         *)
(* Every callback runs to completion on one event loop, so each handler is *)
(* one action.  The transport (AsyncClient) is the environment: it is      *)
(* modelled by its send-buffer room, the bytes it holds unacknowledged and *)
(* its connection state.                                                   *)
(***************************************************************************)
EXTENDS Integers, Sequences, FiniteSets

\* ------------------------------------------------------------------ bounds

\* Longest message body a write of the general workload carries.
MaxLen == 2
\* Largest send-buffer room the transport reports.
MaxSpace == 2
\* Messages a session queues in the general workload.
MaxWrites == 3
\* Messages a session queues beyond the queue cap in the burst workload.
BurstExtra == 1
\* Longest message the encoder workload enumerates.
MaxMsg == 4

\* Queue depth cap of a session (AsyncEventSource.h, not part of src/).
SSE_MAX_QUEUED_MESSAGES == 32

\* The sessions a Hub may admit, and the ones admitted in the single-session
\* specifications.
Sessions == {1, 2}
SoloSessions == {1}

\* The burst workload: equal messages, a transport that is stalled or open.
BurstLens == {1}
BurstSpaces == {0, MaxSpace}
BurstAcks == {1}

\* What the connection of a request acknowledges while its response waits:
\* nothing yet (0) or the response head (1 stands for its length).
AckLens == {0, 1}

\* The Hub workload: frame lengths, transport rooms, and the numbers of
\* messages a session may have queued when one more is written.
HubLens == {1}
HubSpaces == {0, MaxSpace}
HubIds == {0, 1}
\* The sessions whose copy of a broadcast frame can be allocated.
HubAllocs == {{1, 2}, {2}}

\* The encoder workload: every message of at most MaxMsg characters over
\* EncChars, the messages of the two scenarios and no message; an event name
\* or none; ids and retry times, zero or not.
EncChars == {"a", "CR", "LF"}
EncMessages ==
  {[null |-> FALSE, s |-> f] :
     f \in UNION {[1..k -> EncChars] : k \in 0..MaxMsg}}
  \cup {[null |-> FALSE, s |-> <<"h", "e", "l", "l", "o">>],
        [null |-> FALSE,
         s |-> <<"l", "i", "n", "e", "1", "LF", "l", "i", "n", "e", "2">>],
        [null |-> TRUE, s |-> <<>>]}
EncEvents == {[null |-> TRUE, s |-> <<>>],
              [null |-> FALSE, s |-> <<"u", "p", "d", "a", "t", "e">>]}
EncIds == {0, 5}
EncRetries == {0, 3000}

\* The sends to a session: without a message, with every choice of event
\* name, id and retry time, and one with a message; how many of them; and
\* the room of a transport that can take any of their frames.
SendInputs ==
  {[message |-> [null |-> TRUE, s |-> <<>>], event |-> event, id |-> id,
    reconnect |-> reconnect] :
     event \in EncEvents, id \in EncIds, reconnect \in EncRetries}
  \cup {[message |-> [null |-> FALSE, s |-> <<"a">>],
         event |-> [null |-> TRUE, s |-> <<>>], id |-> 0, reconnect |-> 0]}
MaxSends == 2
SendRoom == 64

Min(a, b) == IF a < b THEN a ELSE b

\* ------------------------------------------------------------------ state

VARIABLES
  _clients,       \* AsyncEventSource::_clients: the Hub's list of sessions
  life,           \* per session: "unborn", "alive" (constructed), "deleted"
  _client,        \* per session: AsyncEventSourceClient::_client is non-NULL
  _messageQueue,  \* per session: the queue of messages, front first
  tcp,            \* per session: the transport (AsyncClient) as seen by the code
  nQueued,        \* per session: messages added to the queue so far (gives message ids)
  bytesQueued,    \* per session: bytes of the messages added to the queue so far
  bytesAcked,     \* per session: bytes the on-acknowledge callbacks delivered so far
  last,           \* the handler that ran last, with its input and outcome
  resp,           \* per request: where its AsyncEventSourceResponse stands
  _username,      \* AsyncWebHandler::_username is not ""
  _password,      \* AsyncWebHandler::_password is not ""
  _connectcb,     \* AsyncEventSource::_connectcb: the admission callback, if any
  enc,            \* the encoder's input and the frame it returned
  _lock,          \* AsyncWebLock::_lock: the binary semaphore and who took it
  _lockedBy,      \* AsyncWebLock::_lockedBy: a task, or NULL
  task            \* per task: where it stands in lock()/unlock(), and its guards

lockVars == <<_lock, _lockedBy, task>>

vars == <<_clients, life, _client, _messageQueue, tcp, nQueued,
          bytesQueued, bytesAcked, last, resp, _username, _password, _connectcb, lockVars, enc>>

\* ------------------------------------------------------------ the message

\* AsyncEventSourceMessage(data, len): a failed allocation degrades to length 0.
\* id names the message; given counts the bytes handed to the transport for it.
NewMessage(id, len, allocOk) ==
  [id |-> id, _len |-> IF allocOk THEN len ELSE 0, _sent |-> 0, _acked |-> 0,
   given |-> 0]

\* AsyncEventSourceMessage::finished() and sent() (AsyncEventSource.h).
finished(m) == m._acked = m._len
sent(m) == m._sent = m._len

\* Mutant of ack: a message of length 0 keeps the bytes acknowledged.
ackEmptySwallows(m, len) ==
  IF m._acked + len > m._len /\ m._len > 0
    THEN [m |-> [m EXCEPT !._acked = m._len], extra |-> m._acked + len - m._len]
    ELSE [m |-> [m EXCEPT !._acked = Min(m._len, m._acked + len)], extra |-> 0]

\* Mutant of ack: _acked is not capped at _len.
ackNoCap(m, len) ==
  IF m._acked + len > m._len
    THEN [m |-> [m EXCEPT !._acked = m._acked + len],
          extra |-> m._acked + len - m._len]
    ELSE [m |-> [m EXCEPT !._acked = m._acked + len], extra |-> 0]

\* Mutant of ack: the surplus of a finished message is not carried on.
ackNoSurplus(m, len) ==
  IF m._acked + len > m._len
    THEN [m |-> [m EXCEPT !._acked = m._len], extra |-> 0]
    ELSE [m |-> [m EXCEPT !._acked = m._acked + len], extra |-> 0]

\* AsyncEventSourceMessage::ack: the message after the call and the surplus.
ack(m, len) ==
  IF m._acked + len > m._len
    THEN [m |-> [m EXCEPT !._acked = m._len], extra |-> m._acked + len - m._len]
    ELSE [m |-> [m EXCEPT !._acked = m._acked + len], extra |-> 0]

\* AsyncClient::add(data, size): the transport takes what fits in its room.
add(space, size) == Min(space, size)

\* Mutant of send: _sent is not advanced after the bytes were handed over.
sendNoAdvance(m, space) ==
  LET len == m._len - m._sent IN
  IF space < len
    THEN [m |-> m, ret |-> 0, space |-> space]
    ELSE LET n == add(space, len) IN
         [m |-> [m EXCEPT !.given = m.given + n], ret |-> n, space |-> space - n]

\* Mutant of send: no check of the room, whatever fits is handed over.
sendPartial(m, space) ==
  LET n == add(space, m._len - m._sent) IN
  [m |-> [m EXCEPT !._sent = m._sent + n, !.given = m.given + n],
   ret |-> n, space |-> space - n]

\* AsyncEventSourceMessage::send: the message after the call, the value
\* returned and the room left in the transport.
send(m, space) ==
  LET len == m._len - m._sent IN
  IF space < len
    THEN [m |-> m, ret |-> 0, space |-> space]
    ELSE LET n == add(space, len) IN
         [m |-> [m EXCEPT !._sent = m._sent + n, !.given = m.given + n],
          ret |-> n, space |-> space - n]

\* ------------------------------------------------------------ the session

\* AsyncEventSourceClient::connected() (AsyncEventSource.h).
connected(s) == _client[s] /\ tcp[s].connected

\* AsyncClient::canSend(): the transport has room.
canSend(s) == tcp[s].connected /\ tcp[s].space > 0

\* First loop of _runQueue: drop the finished messages at the front.
RECURSIVE dropFinished(_)
dropFinished(q) ==
  IF q # <<>> /\ finished(Head(q)) THEN dropFinished(Tail(q)) ELSE q

\* Second loop of _runQueue: visit every message in order, send the unsent.
RECURSIVE sendEach(_, _)
sendEach(q, space) ==
  IF q = <<>> THEN [q |-> <<>>, space |-> space, bytes |-> 0]
  ELSE LET r == IF ~sent(Head(q)) THEN send(Head(q), space)
                ELSE [m |-> Head(q), ret |-> 0, space |-> space]
           rest == sendEach(Tail(q), r.space)
       IN [q |-> <<r.m>> \o rest.q, space |-> rest.space,
           bytes |-> r.ret + rest.bytes]

\* Mutant of sendEach: the loop stops at the first send that returned 0.
RECURSIVE sendEachStopAtFail(_, _)
sendEachStopAtFail(q, space) ==
  IF q = <<>> THEN [q |-> <<>>, space |-> space, bytes |-> 0]
  ELSE LET r == IF ~sent(Head(q)) THEN send(Head(q), space)
                ELSE [m |-> Head(q), ret |-> 0, space |-> space]
           stop == ~sent(Head(q)) /\ r.ret = 0 /\ ~sent(r.m)
           rest == IF stop THEN [q |-> Tail(q), space |-> r.space, bytes |-> 0]
                   ELSE sendEachStopAtFail(Tail(q), r.space)
       IN [q |-> <<r.m>> \o rest.q, space |-> rest.space,
           bytes |-> r.ret + rest.bytes]

\* Mutant of _runQueue: the pass ends at the first message that does not fit.
runQueueStopAtFail(q, space) == sendEachStopAtFail(dropFinished(q), space)

\* Mutant of _runQueue: the finished messages at the front are not dropped.
runQueueNoDrop(q, space) == sendEach(q, space)

\* AsyncEventSourceClient::_runQueue: the queue after the pass, the room left
\* and the bytes handed to the transport.
_runQueue(q, space) == sendEach(dropFinished(q), space)

\* The while loop of _onAck: redistribute len over the queue, front first.
RECURSIVE ackLoop(_, _)
ackLoop(q, len) ==
  IF len = 0 \/ q = <<>> THEN q
  ELSE LET r == ack(Head(q), len) IN
       IF finished(r.m) THEN ackLoop(Tail(q), r.extra)
       ELSE ackLoop(<<r.m>> \o Tail(q), r.extra)

\* The transport after a drain that left `space` room and took `bytes` bytes;
\* taken counts all the bytes the session ever handed to its transport.
drained(t, r) ==
  [t EXCEPT !.space = r.space, !.unacked = t.unacked + r.bytes,
            !.taken = t.taken + r.bytes]

Last(op, s, arg, res) == [op |-> op, s |-> s, arg |-> arg, res |-> res]

\* ------------------------------------------------------------ the encoder

\* Characters are one-character strings; CR and LF stand for '\r' and '\n'.
\* A C string is a sequence of characters, or the null pointer.
CR == "CR"
LF == "LF"
NULLSTR == [null |-> TRUE, s |-> <<>>]
Str(s) == [null |-> FALSE, s |-> s]

\* String(uint32_t): the decimal digits of n.
Digit(d) == <<"0", "1", "2", "3", "4", "5", "6", "7", "8", "9">>[d + 1]
RECURSIVE ToDec(_)
ToDec(n) == IF n < 10 THEN <<Digit(n)>> ELSE ToDec(n \div 10) \o <<Digit(n % 10)>>

\* The string literals of generateEventMessage.
RETRY == <<"r", "e", "t", "r", "y", ":", " ">>
ID == <<"i", "d", ":", " ">>
EVENT == <<"e", "v", "e", "n", "t", ":", " ">>
DATA == <<"d", "a", "t", "a", ":", " ">>
CRLF == <<CR, LF>>

\* Pointers into message are offsets from its start; NULL is no pointer.
NULL == -1

\* strchr(message + from, c) as an offset: the first c at or after from.
strchr(msg, from, c) ==
  LET hits == {q \in from..(Len(msg) - 1) : msg[q + 1] = c} IN
  IF hits = {} THEN NULL ELSE CHOOSE q \in hits : \A r \in hits : q <= r

\* The if (reconnect), if (id), if (event != NULL) part of generateEventMessage.
evHead(event, id, reconnect) ==
  (IF reconnect # 0 THEN RETRY \o ToDec(reconnect) \o CRLF ELSE <<>>)
  \o (IF id # 0 THEN ID \o ToDec(id) \o CRLF ELSE <<>>)
  \o (IF ~event.null THEN EVENT \o event.s \o CRLF ELSE <<>>)

\* Mutant of evHead: the id line is written before the retry line.
evHeadIdFirst(event, id, reconnect) ==
  (IF id # 0 THEN ID \o ToDec(id) \o CRLF ELSE <<>>)
  \o (IF reconnect # 0 THEN RETRY \o ToDec(reconnect) \o CRLF ELSE <<>>)
  \o (IF ~event.null THEN EVENT \o event.s \o CRLF ELSE <<>>)

\* Mutant of the do-while loop: a line break is one character, a pair of
\* them is not looked for.
RECURSIVE dataLoopSplitPairs(_, _, _, _)
dataLoopSplitPairs(msg, lineStart, ev, ldataOk) ==
  LET messageLen == Len(msg)
      nextN == strchr(msg, lineStart, LF)
      nextR == strchr(msg, lineStart, CR)
  IN IF nextN = NULL /\ nextR = NULL
       THEN IF ldataOk
              THEN ev \o DATA \o SubSeq(msg, lineStart + 1, messageLen)
                      \o CRLF \o CRLF
              ELSE ev
       ELSE LET lineEnd == IF nextN # NULL /\ nextR # NULL
                             THEN Min(nextR, nextN)
                             ELSE IF nextN # NULL THEN nextN ELSE nextR
                nextLine == lineEnd + 1
                ev2 == IF ldataOk
                         THEN ev \o DATA \o SubSeq(msg, lineStart + 1, lineEnd)
                                 \o CRLF
                         ELSE ev
                ev3 == IF nextLine = messageLen THEN ev2 \o CRLF ELSE ev2
            IN IF nextLine < messageLen
                 THEN dataLoopSplitPairs(msg, nextLine, ev3, ldataOk)
                 ELSE ev3

\* The do-while loop of generateEventMessage from lineStart on, ev being the
\* text built so far; ldataOk tells whether malloc gives the line buffers.
RECURSIVE dataLoop(_, _, _, _)
dataLoop(msg, lineStart, ev, ldataOk) ==
  LET messageLen == Len(msg)
      nextN == strchr(msg, lineStart, LF)
      nextR == strchr(msg, lineStart, CR)
  IN IF nextN = NULL /\ nextR = NULL
       THEN IF ldataOk
              THEN ev \o DATA \o SubSeq(msg, lineStart + 1, messageLen)
                      \o CRLF \o CRLF
              ELSE ev
       ELSE LET lineEnd == IF nextN # NULL /\ nextR # NULL
                             THEN IF nextR < nextN THEN nextR ELSE nextN
                             ELSE IF nextN # NULL THEN nextN ELSE nextR
                nextLine ==
                  IF nextN # NULL /\ nextR # NULL
                    THEN IF nextR < nextN
                           THEN IF nextN = nextR + 1 THEN nextN + 1 ELSE nextR + 1
                           ELSE IF nextR = nextN + 1 THEN nextR + 1 ELSE nextN + 1
                    ELSE IF nextN # NULL THEN nextN + 1 ELSE nextR + 1
                ev2 == IF ldataOk
                         THEN ev \o DATA \o SubSeq(msg, lineStart + 1, lineEnd)
                                 \o CRLF
                         ELSE ev
                ev3 == IF nextLine = messageLen THEN ev2 \o CRLF ELSE ev2
            IN IF nextLine < messageLen
                 THEN dataLoop(msg, nextLine, ev3, ldataOk)
                 ELSE ev3

\* Mutant of the do-while loop: the blank line follows every data line.
RECURSIVE dataLoopBlankPerLine(_, _, _, _)
dataLoopBlankPerLine(msg, lineStart, ev, ldataOk) ==
  LET messageLen == Len(msg)
      nextN == strchr(msg, lineStart, LF)
      nextR == strchr(msg, lineStart, CR)
  IN IF nextN = NULL /\ nextR = NULL
       THEN IF ldataOk
              THEN ev \o DATA \o SubSeq(msg, lineStart + 1, messageLen)
                      \o CRLF \o CRLF
              ELSE ev
       ELSE LET lineEnd == IF nextN # NULL /\ nextR # NULL
                             THEN IF nextR < nextN THEN nextR ELSE nextN
                             ELSE IF nextN # NULL THEN nextN ELSE nextR
                nextLine ==
                  IF nextN # NULL /\ nextR # NULL
                    THEN IF nextR < nextN
                           THEN IF nextN = nextR + 1 THEN nextN + 1 ELSE nextR + 1
                           ELSE IF nextR = nextN + 1 THEN nextR + 1 ELSE nextN + 1
                    ELSE IF nextN # NULL THEN nextN + 1 ELSE nextR + 1
                ev2 == IF ldataOk
                         THEN ev \o DATA \o SubSeq(msg, lineStart + 1, lineEnd)
                                 \o CRLF \o CRLF
                         ELSE ev
            IN IF nextLine < messageLen
                 THEN dataLoopBlankPerLine(msg, nextLine, ev2, ldataOk)
                 ELSE ev2

\* Mutant of generateEventMessage: a blank line after every data line.
generateEventMessageBlankPerLine(message, event, id, reconnect, ldataOk) ==
  IF ~message.null
    THEN dataLoopBlankPerLine(message.s, 0, evHead(event, id, reconnect), ldataOk)
    ELSE evHead(event, id, reconnect)

\* Mutant of generateEventMessage: id before retry.
generateEventMessageIdFirst(message, event, id, reconnect, ldataOk) ==
  IF ~message.null
    THEN dataLoop(message.s, 0, evHeadIdFirst(event, id, reconnect), ldataOk)
    ELSE evHeadIdFirst(event, id, reconnect)

\* Mutant of generateEventMessage: every line-break character separates.
generateEventMessageSplitPairs(message, event, id, reconnect, ldataOk) ==
  IF ~message.null
    THEN dataLoopSplitPairs(message.s, 0, evHead(event, id, reconnect), ldataOk)
    ELSE evHead(event, id, reconnect)

\* Mutant of generateEventMessage: the blank line that ends a frame is
\* written for an absent message as well.
generateEventMessageNullTerminated(message, event, id, reconnect, ldataOk) ==
  IF ~message.null
    THEN dataLoop(message.s, 0, evHead(event, id, reconnect), ldataOk)
    ELSE evHead(event, id, reconnect) \o CRLF

\* generateEventMessage(message, event, id, reconnect).
generateEventMessage(message, event, id, reconnect, ldataOk) ==
  IF ~message.null
    THEN dataLoop(message.s, 0, evHead(event, id, reconnect), ldataOk)
    ELSE evHead(event, id, reconnect)

\* The tasks that use the lock (their control blocks), and the depth to
\* which a task nests guards.
Tasks == {1, 2, 3}
MaxDepth == 2

\* The semaphore: count 1 when it can be taken; holder is the task that
\* took it and has not given it back (not a field of the semaphore).
Given == [count |-> 1, holder |-> NULL]
Taken(t) == [count |-> 0, holder |-> t]

\* AsyncWebLock::AsyncWebLock(): the semaphore created and given, no owner;
\* no task is inside a call and none has a guard.
AsyncWebLock ==
  /\ _lock = Given
  /\ _lockedBy = NULL
  /\ task = [t \in Tasks |-> [pc |-> "idle", guards |-> <<>>]]

\* The admission callbacks of the workload: none, or one that sends the new
\* session a first event of len bytes (client->send(...)).
NoCallback == [null |-> TRUE, len |-> 0]
ConnectCbs == {NoCallback} \cup {[null |-> FALSE, len |-> n] : n \in HubLens}

\* No frame was asked of the encoder.
NoEnc == [called |-> FALSE, message |-> NULLSTR, event |-> NULLSTR, id |-> 0,
          reconnect |-> 0, ldataOk |-> TRUE, ev |-> <<>>]

\* ------------------------------------------------------------------ Init

Init ==
  /\ _clients = <<>>
  /\ life = [s \in Sessions |-> "unborn"]
  /\ _client = [s \in Sessions |-> FALSE]
  /\ _messageQueue = [s \in Sessions |-> <<>>]
  /\ tcp = [s \in Sessions |->
              [connected |-> FALSE, space |-> 0, unacked |-> 0, closing |-> FALSE,
               taken |-> 0]]
  /\ nQueued = [s \in Sessions |-> 0]
  /\ bytesQueued = [s \in Sessions |-> 0]
  /\ bytesAcked = [s \in Sessions |-> 0]
  /\ last = Last("init", 0, 0, "")
  /\ resp = [s \in Sessions |-> "none"]
  /\ _username = FALSE
  /\ _password = FALSE
  /\ _connectcb = NoCallback
  /\ enc = NoEnc
  /\ AsyncWebLock

\* ---------------------------------------------------------------- actions

\* AsyncWebHandler::setAuthentication(username, password): u and p tell
\* whether the strings given are non-empty.
setAuthentication(u, p) ==
  /\ _username' = u
  /\ _password' = p
  /\ last' = Last("setAuthentication", 0, 0, "")
  /\ UNCHANGED <<_clients, life, _client, _messageQueue, tcp, nQueued,
                 bytesQueued, bytesAcked, resp, enc, _connectcb, lockVars>>

\* AsyncEventSourceResponse::_respond: the head is written to the request's
\* connection and the response waits for its acknowledgment.
_respond(s) == "RESPONSE_WAIT_ACK"

\* Mutant of handleRequest: the credentials are not checked.
handleRequestNoAuth(s, authOk) ==
  /\ resp[s] = "none"
  /\ resp' = [resp EXCEPT ![s] = _respond(s)]
  /\ last' = Last("handleRequest", s, IF authOk THEN 1 ELSE 0, "respond")
  /\ UNCHANGED <<_clients, life, _client, _messageQueue, tcp, nQueued,
                 bytesQueued, bytesAcked, _username, _password, _connectcb, lockVars, enc>>

\* AsyncEventSource::handleRequest(request); authOk is the outcome of
\* request->authenticate(_username, _password).  A request that fails it is
\* answered by requestAuthentication(), the others by request->send(new
\* AsyncEventSourceResponse), which runs the response's _respond.
handleRequest(s, authOk) ==
  /\ resp[s] = "none"
  /\ IF (_username /\ _password) /\ ~authOk
       THEN /\ resp' = [resp EXCEPT ![s] = "challenged"]
            /\ last' = Last("handleRequest", s, 0, "challenge")
       ELSE /\ resp' = [resp EXCEPT ![s] = _respond(s)]
            /\ last' = Last("handleRequest", s, IF authOk THEN 1 ELSE 0, "respond")
  /\ UNCHANGED <<_clients, life, _client, _messageQueue, tcp, nQueued,
                 bytesQueued, bytesAcked, _username, _password, _connectcb, lockVars, enc>>

\* The sessions in the Hub's list.
Registered(list) == {list[i] : i \in DOMAIN list}

\* AsyncEventSource::onConnect(cb).
onConnect(cb) ==
  /\ _connectcb' = cb
  /\ last' = Last("onConnect", 0, 0, "")
  /\ UNCHANGED <<_clients, life, _client, _messageQueue, tcp, nQueued,
                 bytesQueued, bytesAcked, resp, _username, _password, enc, lockVars>>

\* Mutant of _addClient: the session is added to the list twice.
addClientTwice(s) == Append(Append(_clients, s), s)

\* AsyncEventSource::_addClient(client): _clients.add(client).
_addClient(s) == Append(_clients, s)

\* if (_connectcb) _connectcb(client), for the callbacks of the workload: the
\* callback sends its event to the new session, whose queue is empty and
\* whose transport is t (client->send, write, _queueMessage).  calls counts
\* the invocations, saw tells whether the callback found the session in list.
connectcb(s, t, list) ==
  IF _connectcb.null
    THEN [q |-> <<>>, tcp |-> t, calls |-> 0, bytes |-> 0, saw |-> ""]
  ELSE
    LET m == NewMessage(1, _connectcb.len, TRUE)
        saw == IF s \in Registered(list) THEN "listed" ELSE "unlisted"
    IN IF t.connected /\ t.space > 0
         THEN LET r == _runQueue(<<m>>, t.space) IN
              [q |-> r.q, tcp |-> drained(t, r), calls |-> 1,
               bytes |-> m._len, saw |-> saw]
         ELSE [q |-> <<m>>, tcp |-> t, calls |-> 1, bytes |-> m._len,
               saw |-> saw]

\* Mutant of Admit: the session is registered and no callback is invoked.
AdmitNoCallback(s, room) ==
  /\ life' = [life EXCEPT ![s] = "alive"]
  /\ _client' = [_client EXCEPT ![s] = TRUE]
  /\ tcp' = [tcp EXCEPT ![s] = [connected |-> TRUE, space |-> room,
                                unacked |-> 0, closing |-> FALSE,
                                taken |-> 0]]
  /\ _clients' = _addClient(s)
  /\ resp' = [resp EXCEPT ![s] = "deleted"]
  /\ last' = Last("admit", s, 0, "")
  /\ UNCHANGED <<_username, _password, _connectcb, lockVars, enc, _messageQueue,
                 nQueued, bytesQueued, bytesAcked>>

\* Mutant of Admit: the request is kept (not deleted, its callbacks still
\* installed), so its response goes on receiving acknowledgments.
AdmitKeepRequest(s, room) ==
  LET t0 == [connected |-> TRUE, space |-> room, unacked |-> 0,
             closing |-> FALSE, taken |-> 0]
      list == _addClient(s)
      cb == connectcb(s, t0, list)
  IN
  /\ life' = [life EXCEPT ![s] = "alive"]
  /\ _client' = [_client EXCEPT ![s] = TRUE]
  /\ _clients' = list
  /\ tcp' = [tcp EXCEPT ![s] = cb.tcp]
  /\ _messageQueue' = [_messageQueue EXCEPT ![s] = cb.q]
  /\ nQueued' = [nQueued EXCEPT ![s] = cb.calls]
  /\ bytesQueued' = [bytesQueued EXCEPT ![s] = cb.bytes]
  /\ last' = Last("admit", s, cb.calls, cb.saw)
  /\ UNCHANGED <<resp, _username, _password, _connectcb, lockVars, enc, bytesAcked>>

\* AsyncEventSourceClient::AsyncEventSourceClient(request, server): the
\* session takes the request's connection (which reports `room`), installs
\* its own callbacks in place of the request's, registers with the Hub and
\* deletes the request.
Admit(s, room) ==
  LET t0 == [connected |-> TRUE, space |-> room, unacked |-> 0,
             closing |-> FALSE, taken |-> 0]
      list == _addClient(s)
      cb == connectcb(s, t0, list)
  IN
  /\ life' = [life EXCEPT ![s] = "alive"]
  /\ _client' = [_client EXCEPT ![s] = TRUE]
  /\ _clients' = list
  /\ tcp' = [tcp EXCEPT ![s] = cb.tcp]
  /\ _messageQueue' = [_messageQueue EXCEPT ![s] = cb.q]
  /\ nQueued' = [nQueued EXCEPT ![s] = cb.calls]
  /\ bytesQueued' = [bytesQueued EXCEPT ![s] = cb.bytes]
  /\ resp' = [resp EXCEPT ![s] = "deleted"]
  /\ last' = Last("admit", s, cb.calls, cb.saw)
  /\ UNCHANGED <<_username, _password, _connectcb, lockVars, enc, bytesAcked>>

\* AsyncEventSourceResponse::_ack(request, len, time): the request's
\* connection acknowledged len bytes while the response was waiting.
_ack(s, len, room) ==
  /\ resp[s] = "RESPONSE_WAIT_ACK"
  /\ IF len # 0
       THEN Admit(s, room)
       ELSE /\ last' = Last("respAck", s, 0, "")
            /\ UNCHANGED <<_clients, life, _client, _messageQueue, tcp,
                           nQueued, bytesQueued, bytesAcked, resp,
                           _username, _password, _connectcb, lockVars, enc>>

\* Mutant of _queueMessage: the message is queued, the queue is not run.
queueMessageNoDrain(s, m) ==
  IF ~connected(s)
    THEN [q |-> _messageQueue[s], tcp |-> tcp[s], res |-> "dead"]
  ELSE
    LET full == Len(_messageQueue[s]) >= SSE_MAX_QUEUED_MESSAGES
        q1 == IF full THEN _messageQueue[s] ELSE Append(_messageQueue[s], m)
        res == IF full THEN "overflow" ELSE "queued"
    IN [q |-> q1, tcp |-> tcp[s], res |-> res]

\* Mutant of _queueMessage: the queue is run only when the message was queued.
queueMessageDrainOnlyIfQueued(s, m) ==
  IF ~connected(s)
    THEN [q |-> _messageQueue[s], tcp |-> tcp[s], res |-> "dead"]
  ELSE
    LET full == Len(_messageQueue[s]) >= SSE_MAX_QUEUED_MESSAGES
        q1 == IF full THEN _messageQueue[s] ELSE Append(_messageQueue[s], m)
        res == IF full THEN "overflow" ELSE "queued"
    IN IF canSend(s) /\ ~full
         THEN LET r == _runQueue(q1, tcp[s].space) IN
              [q |-> r.q, tcp |-> drained(tcp[s], r), res |-> res]
         ELSE [q |-> q1, tcp |-> tcp[s], res |-> res]

\* Mutant of _queueMessage: no check of the queue depth.
queueMessageNoCap(s, m) ==
  IF ~connected(s)
    THEN [q |-> _messageQueue[s], tcp |-> tcp[s], res |-> "dead"]
  ELSE
    LET q1 == Append(_messageQueue[s], m) IN
    IF canSend(s)
      THEN LET r == _runQueue(q1, tcp[s].space) IN
           [q |-> r.q, tcp |-> drained(tcp[s], r), res |-> "queued"]
      ELSE [q |-> q1, tcp |-> tcp[s], res |-> "queued"]

\* Mutant of _queueMessage: a full queue drops its oldest message for the new one.
queueMessageDropOldest(s, m) ==
  IF ~connected(s)
    THEN [q |-> _messageQueue[s], tcp |-> tcp[s], res |-> "dead"]
  ELSE
    LET full == Len(_messageQueue[s]) >= SSE_MAX_QUEUED_MESSAGES
        q1 == IF full THEN Append(Tail(_messageQueue[s]), m)
              ELSE Append(_messageQueue[s], m)
        res == IF full THEN "overflow" ELSE "queued"
    IN IF canSend(s)
         THEN LET r == _runQueue(q1, tcp[s].space) IN
              [q |-> r.q, tcp |-> drained(tcp[s], r), res |-> res]
         ELSE [q |-> q1, tcp |-> tcp[s], res |-> res]

\* Mutant of _queueMessage: no check that the session is connected.
queueMessageNoLiveCheck(s, m) ==
  LET full == Len(_messageQueue[s]) >= SSE_MAX_QUEUED_MESSAGES
      q1 == IF full THEN _messageQueue[s] ELSE Append(_messageQueue[s], m)
      res == IF full THEN "overflow" ELSE "queued"
  IN IF canSend(s)
       THEN LET r == _runQueue(q1, tcp[s].space) IN
            [q |-> r.q, tcp |-> drained(tcp[s], r), res |-> res]
       ELSE [q |-> q1, tcp |-> tcp[s], res |-> res]

\* AsyncEventSourceClient::write -> _queueMessage(new AsyncEventSourceMessage).
\* The outcome of _queueMessage: the queue, the transport and what was done.
_queueMessage(s, m) ==
  IF ~connected(s)
    THEN [q |-> _messageQueue[s], tcp |-> tcp[s], res |-> "dead"]
  ELSE
    LET full == Len(_messageQueue[s]) >= SSE_MAX_QUEUED_MESSAGES
        q1 == IF full THEN _messageQueue[s] ELSE Append(_messageQueue[s], m)
        res == IF full THEN "overflow" ELSE "queued"
    IN IF canSend(s)
         THEN LET r == _runQueue(q1, tcp[s].space) IN
              [q |-> r.q, tcp |-> drained(tcp[s], r), res |-> res]
         ELSE [q |-> q1, tcp |-> tcp[s], res |-> res]

write(s, len, allocOk) ==
  /\ life[s] = "alive"
  /\ LET m == NewMessage(nQueued[s] + 1, len, allocOk)
         r == _queueMessage(s, m)
     IN /\ _messageQueue' = [_messageQueue EXCEPT ![s] = r.q]
        /\ tcp' = [tcp EXCEPT ![s] = r.tcp]
        /\ bytesQueued' = [bytesQueued EXCEPT
                             ![s] = @ + IF r.res = "queued" THEN m._len ELSE 0]
        /\ nQueued' = [nQueued EXCEPT
                         ![s] = @ + IF r.res = "queued" THEN 1 ELSE 0]
        /\ last' = Last("write", s, m._len, r.res)
  /\ UNCHANGED <<resp, _username, _password, _connectcb, lockVars, enc, _clients, life, _client, bytesAcked>>

\* AsyncEventSourceClient::send(message, event, id, reconnect): the frame is
\* generated and queued as a message of its length.
clientSend(s, message, event, id, reconnect) ==
  /\ life[s] = "alive"
  /\ LET ev == generateEventMessage(message, event, id, reconnect, TRUE)
         m == NewMessage(nQueued[s] + 1, Len(ev), TRUE)
         r == _queueMessage(s, m)
     IN /\ _messageQueue' = [_messageQueue EXCEPT ![s] = r.q]
        /\ tcp' = [tcp EXCEPT ![s] = r.tcp]
        /\ bytesQueued' = [bytesQueued EXCEPT
                             ![s] = @ + IF r.res = "queued" THEN m._len ELSE 0]
        /\ nQueued' = [nQueued EXCEPT
                         ![s] = @ + IF r.res = "queued" THEN 1 ELSE 0]
        /\ enc' = [called |-> TRUE, message |-> message, event |-> event,
                   id |-> id, reconnect |-> reconnect, ldataOk |-> TRUE,
                   ev |-> ev]
        /\ last' = Last("clientSend", s, m._len, r.res)
  /\ UNCHANGED <<resp, _username, _password, _connectcb, lockVars, _clients, life, _client,
                 bytesAcked>>


\* Mutant of hubSend: a connected session that cannot send holds the
\* broadcast back for every session.
hubSendStopAtStalled(len, oks) ==
  /\ LET all == {s \in Registered(_clients) : connected(s)}
         to == IF \E s \in all : ~canSend(s) THEN {} ELSE all
         m(s) == NewMessage(nQueued[s] + 1, len, s \in oks)
         r(s) == _queueMessage(s, m(s))
     IN /\ _messageQueue' = [s \in Sessions |->
                               IF s \in to THEN r(s).q ELSE _messageQueue[s]]
        /\ tcp' = [s \in Sessions |-> IF s \in to THEN r(s).tcp ELSE tcp[s]]
        /\ bytesQueued' = [s \in Sessions |->
                             IF s \in to /\ r(s).res = "queued"
                               THEN bytesQueued[s] + m(s)._len
                               ELSE bytesQueued[s]]
        /\ nQueued' = [s \in Sessions |->
                         IF s \in to /\ r(s).res = "queued"
                           THEN nQueued[s] + 1 ELSE nQueued[s]]
        /\ last' = Last("send", 0, len,
                        IF all \subseteq oks THEN "copied" ELSE "nomem")
  /\ UNCHANGED <<resp, _username, _password, _connectcb, lockVars, enc, _clients, life, _client,
                 bytesAcked>>

\* Mutant of hubSend: only the first session of the list is written to.
hubSendFirstOnly(len, oks) ==
  /\ LET to == {s \in Registered(_clients) : s = Head(_clients) /\ connected(s)}
         m(s) == NewMessage(nQueued[s] + 1, len, s \in oks)
         r(s) == _queueMessage(s, m(s))
     IN /\ _messageQueue' = [s \in Sessions |->
                               IF s \in to THEN r(s).q ELSE _messageQueue[s]]
        /\ tcp' = [s \in Sessions |-> IF s \in to THEN r(s).tcp ELSE tcp[s]]
        /\ bytesQueued' = [s \in Sessions |->
                             IF s \in to /\ r(s).res = "queued"
                               THEN bytesQueued[s] + m(s)._len
                               ELSE bytesQueued[s]]
        /\ nQueued' = [s \in Sessions |->
                         IF s \in to /\ r(s).res = "queued"
                           THEN nQueued[s] + 1 ELSE nQueued[s]]
        /\ last' = Last("send", 0, len,
                        IF to \subseteq oks THEN "copied" ELSE "nomem")
  /\ UNCHANGED <<resp, _username, _password, _connectcb, lockVars, enc, _clients, life, _client,
                 bytesAcked>>

\* AsyncEventSource::send(message, event, id, reconnect): len is the length
\* of the frame generateEventMessage returned; every session c of _clients
\* with c->connected() gets c->write(frame, len), whose copy of the frame is
\* allocated for the sessions in oks.  The sessions of the list are distinct
\* and a write touches its own session only, so the loop is one update per
\* session.
hubSend(len, oks) ==
  /\ LET to == {s \in Registered(_clients) : connected(s)}
         m(s) == NewMessage(nQueued[s] + 1, len, s \in oks)
         r(s) == _queueMessage(s, m(s))
     IN /\ _messageQueue' = [s \in Sessions |->
                               IF s \in to THEN r(s).q ELSE _messageQueue[s]]
        /\ tcp' = [s \in Sessions |-> IF s \in to THEN r(s).tcp ELSE tcp[s]]
        /\ bytesQueued' = [s \in Sessions |->
                             IF s \in to /\ r(s).res = "queued"
                               THEN bytesQueued[s] + m(s)._len
                               ELSE bytesQueued[s]]
        /\ nQueued' = [s \in Sessions |->
                         IF s \in to /\ r(s).res = "queued"
                           THEN nQueued[s] + 1 ELSE nQueued[s]]
        /\ last' = Last("send", 0, len,
                        IF to \subseteq oks THEN "copied" ELSE "nomem")
  /\ UNCHANGED <<resp, _username, _password, _connectcb, lockVars, enc, _clients, life, _client,
                 bytesAcked>>

\* AsyncClient::close() as the session sees it: the transport is no longer
\* connected and its disconnect notification is pending.
closed(t) ==
  IF t.connected
    THEN [t EXCEPT !.connected = FALSE, !.space = 0, !.closing = TRUE]
    ELSE t

\* AsyncEventSourceClient::close(): the transport of session s afterwards.
close(s) == IF _client[s] THEN closed(tcp[s]) ELSE tcp[s]

\* Mutant of hubClose: the sessions closed are taken off the list at once.
hubCloseRemoves ==
  /\ tcp' = [s \in Sessions |->
               IF s \in Registered(_clients) /\ connected(s)
                 THEN close(s) ELSE tcp[s]]
  /\ _clients' = SelectSeq(_clients, LAMBDA s : ~connected(s))
  /\ last' = Last("close", 0, 0, "")
  /\ UNCHANGED <<life, _client, _messageQueue, nQueued, bytesQueued,
                 bytesAcked, resp, _username, _password, _connectcb, lockVars, enc>>

\* AsyncEventSource::close(): c->close() for every session c of _clients
\* with c->connected().
hubClose ==
  /\ tcp' = [s \in Sessions |->
               IF s \in Registered(_clients) /\ connected(s)
                 THEN close(s) ELSE tcp[s]]
  /\ last' = Last("close", 0, 0, "")
  /\ UNCHANGED <<_clients, life, _client, _messageQueue, nQueued, bytesQueued,
                 bytesAcked, resp, _username, _password, _connectcb, lockVars, enc>>

\* AsyncEventSourceClient::packetsWaiting() (AsyncEventSource.h).
packetsWaiting(s) == Len(_messageQueue[s])

\* The loop of avgPacketsWaiting: aql and nConnectedClients after it.
RECURSIVE aqlOver(_)
aqlOver(list) ==
  IF list = <<>> THEN 0
  ELSE (IF connected(Head(list)) THEN packetsWaiting(Head(list)) ELSE 0)
       + aqlOver(Tail(list))

RECURSIVE nConnectedOver(_)
nConnectedOver(list) ==
  IF list = <<>> THEN 0
  ELSE (IF connected(Head(list)) THEN 1 ELSE 0) + nConnectedOver(Tail(list))

nConnectedClients == nConnectedOver(_clients)

\* The outcome of an integer division by zero: the processor's exception.
DivideByZero == -1

\* AsyncEventSource::avgPacketsWaiting(): the values a call may return, or
\* DivideByZero; dividing by zero is undefined, any outcome is possible.
avgPacketsWaiting ==
  IF _clients = <<>> THEN {0}
  ELSE IF nConnectedClients = 0
    THEN {DivideByZero} \cup (0..SSE_MAX_QUEUED_MESSAGES)
  ELSE {(aqlOver(_clients) + (nConnectedClients \div 2)) \div nConnectedClients}

\* The predicate of count_if over the list, summed.
RECURSIVE count_if(_)
count_if(list) ==
  IF list = <<>> THEN 0
  ELSE (IF connected(Head(list)) THEN 1 ELSE 0) + count_if(Tail(list))

\* Mutant of count: every session of the list is counted.
countAll == Len(_clients)

\* AsyncEventSource::count().
count == count_if(_clients)

\* A call of generateEventMessage, as made by AsyncEventSource::send and
\* AsyncEventSourceClient::send, on the arguments held in enc: enc keeps the
\* frame returned.
Encode ==
  /\ ~enc.called
  /\ enc' = [enc EXCEPT !.called = TRUE,
                        !.ev = generateEventMessage(enc.message, enc.event,
                                  enc.id, enc.reconnect, enc.ldataOk)]
  /\ last' = Last("encode", 0, 0, "")
  /\ UNCHANGED <<_clients, life, _client, _messageQueue, tcp, nQueued,
                 bytesQueued, bytesAcked, resp, _username, _password, _connectcb, lockVars>>

\* AsyncEventSourceClient::_onAck(len, time).
_onAck(s, len) ==
  /\ life[s] = "alive" /\ connected(s)
  /\ len <= tcp[s].unacked
  /\ LET r == _runQueue(ackLoop(_messageQueue[s], len), tcp[s].space) IN
       /\ _messageQueue' = [_messageQueue EXCEPT ![s] = r.q]
       /\ tcp' = [tcp EXCEPT ![s] =
                    drained([tcp[s] EXCEPT !.unacked = @ - len], r)]
  /\ bytesAcked' = [bytesAcked EXCEPT ![s] = @ + len]
  /\ last' = Last("onAck", s, len, "")
  /\ UNCHANGED <<resp, _username, _password, _connectcb, lockVars, enc, _clients, life, _client, nQueued, bytesQueued>>

\* AsyncEventSourceClient::_onPoll().
_onPoll(s) ==
  /\ life[s] = "alive" /\ connected(s)
  /\ IF _messageQueue[s] # <<>>
       THEN LET r == _runQueue(_messageQueue[s], tcp[s].space) IN
              /\ _messageQueue' = [_messageQueue EXCEPT ![s] = r.q]
              /\ tcp' = [tcp EXCEPT ![s] = drained(tcp[s], r)]
       ELSE UNCHANGED <<_messageQueue, tcp>>
  /\ last' = Last("onPoll", s, 0, "")
  /\ UNCHANGED <<resp, _username, _password, _connectcb, lockVars, enc, _clients, life, _client, nQueued, bytesQueued, bytesAcked>>

\* Mutant of _onTimeout: the timeout is noted and the transport left open.
onTimeoutNoClose(s) ==
  /\ life[s] = "alive" /\ connected(s)
  /\ last' = Last("onTimeout", s, 0, "")
  /\ UNCHANGED <<tcp, resp, _username, _password, _connectcb, lockVars, enc, _clients, life, _client,
                 _messageQueue, nQueued, bytesQueued, bytesAcked>>

\* AsyncEventSourceClient::_onTimeout: _client->close(true).  The transport
\* stops being connected; its disconnect notification follows.
_onTimeout(s) ==
  /\ life[s] = "alive" /\ connected(s)
  /\ tcp' = [tcp EXCEPT ![s] = [@ EXCEPT !.connected = FALSE, !.space = 0,
                                         !.closing = TRUE]]
  /\ last' = Last("onTimeout", s, 0, "")
  /\ UNCHANGED <<resp, _username, _password, _connectcb, lockVars, enc, _clients, life, _client, _messageQueue, nQueued,
                 bytesQueued, bytesAcked>>

\* The peer closes or the connection fails: the transport is no longer
\* connected and its disconnect notification is pending.
TransportDrop(s) ==
  /\ life[s] = "alive" /\ tcp[s].connected
  /\ tcp' = [tcp EXCEPT ![s] = [@ EXCEPT !.connected = FALSE, !.space = 0,
                                         !.closing = TRUE]]
  /\ last' = Last("drop", s, 0, "")
  /\ UNCHANGED <<resp, _username, _password, _connectcb, lockVars, enc, _clients, life, _client, _messageQueue, nQueued,
                 bytesQueued, bytesAcked>>

\* The transport's send-buffer room changes (window updates, other traffic).
TransportSpace(s, room) ==
  /\ life[s] = "alive" /\ tcp[s].connected
  /\ room # tcp[s].space
  /\ tcp' = [tcp EXCEPT ![s].space = room]
  /\ last' = Last("space", s, 0, "")
  /\ UNCHANGED <<resp, _username, _password, _connectcb, lockVars, enc, _clients, life, _client, _messageQueue, nQueued,
                 bytesQueued, bytesAcked>>

\* AsyncEventSource::_handleDisconnect: _clients.remove(client); the list's
\* deleter destroys the session, whose destructor frees the queue.
RECURSIVE remove(_, _)
remove(list, s) ==
  IF list = <<>> THEN <<>>
  ELSE IF Head(list) = s THEN Tail(list)
  ELSE <<Head(list)>> \o remove(Tail(list), s)

\* Mutant of _onDisconnect: the session is destroyed but stays in the list.
onDisconnectKeepListed(s) ==
  /\ life[s] = "alive" /\ tcp[s].closing
  /\ _client' = [_client EXCEPT ![s] = FALSE]
  /\ life' = [life EXCEPT ![s] = "deleted"]
  /\ _messageQueue' = [_messageQueue EXCEPT ![s] = <<>>]
  /\ tcp' = [tcp EXCEPT ![s] = [connected |-> FALSE, space |-> 0,
                                unacked |-> 0, closing |-> FALSE,
                                taken |-> tcp[s].taken]]
  /\ nQueued' = [nQueued EXCEPT ![s] = 0]
  /\ bytesQueued' = [bytesQueued EXCEPT ![s] = 0]
  /\ bytesAcked' = [bytesAcked EXCEPT ![s] = 0]
  /\ last' = Last("onDisconnect", s, Len(_messageQueue[s]), "")
  /\ UNCHANGED <<resp, _username, _password, _connectcb, lockVars, enc, _clients>>

\* The onDisconnect callback: AsyncEventSourceClient::_onDisconnect, then the
\* transport is deleted.
_onDisconnect(s) ==
  /\ life[s] = "alive" /\ tcp[s].closing
  /\ _client' = [_client EXCEPT ![s] = FALSE]
  /\ _clients' = remove(_clients, s)
  /\ life' = [life EXCEPT ![s] = "deleted"]
  /\ _messageQueue' = [_messageQueue EXCEPT ![s] = <<>>]
  /\ tcp' = [tcp EXCEPT ![s] = [connected |-> FALSE, space |-> 0,
                                unacked |-> 0, closing |-> FALSE,
                                taken |-> tcp[s].taken]]
  /\ nQueued' = [nQueued EXCEPT ![s] = 0]
  /\ bytesQueued' = [bytesQueued EXCEPT ![s] = 0]
  /\ bytesAcked' = [bytesAcked EXCEPT ![s] = 0]
  /\ last' = Last("onDisconnect", s, Len(_messageQueue[s]), "")
  /\ UNCHANGED <<resp, _username, _password, _connectcb, lockVars, enc>>

\* ------------------------------------------------------------- the lock

\* The state of the event source, which the lock's operations leave alone.
sseVars == <<_clients, life, _client, _messageQueue, tcp, nQueued, bytesQueued,
             bytesAcked, resp, _username, _password, _connectcb, enc>>

\* extern void *pxCurrentTCB, as task t reads it inside lock(): the control
\* block of the running task, t itself.
pxCurrentTCB(t) == t

\* Mutant of AsyncWebLockGuard: lock() takes the semaphore whoever owns the
\* lock, the owner included.
guardCtorNoOwnerTest(t) ==
  /\ task[t].pc = "idle" /\ Len(task[t].guards) < MaxDepth
  /\ task' = [task EXCEPT ![t].pc = "take"]
  /\ last' = Last("lock", t, Len(task[t].guards) + 1, "take")
  /\ UNCHANGED <<_lock, _lockedBy, sseVars>>

\* AsyncWebLockGuard::AsyncWebLockGuard(l), up to the test in lock(): task t
\* (pxCurrentTCB) reads _lockedBy; if it is t itself lock() returns false and
\* the guard's _lock is NULL, else the task goes on to take the semaphore.
\* _lockedBy is one word, read in one access: a read concurrent with a write
\* returns the value before or after it, both being interleavings here.
AsyncWebLockGuard(t) ==
  /\ task[t].pc = "idle" /\ Len(task[t].guards) < MaxDepth
  /\ IF _lockedBy # pxCurrentTCB(t)
       THEN /\ task' = [task EXCEPT ![t].pc = "take"]
            /\ last' = Last("lock", t, Len(task[t].guards) + 1, "take")
       ELSE /\ task' = [task EXCEPT ![t].guards = Append(@, FALSE)]
            /\ last' = Last("lock", t, Len(task[t].guards) + 1, "false")
  /\ UNCHANGED <<_lock, _lockedBy, sseVars>>

\* Mutant of xSemaphoreTake: the task does not wait for the semaphore.
xSemaphoreTakeNoWait(t) ==
  /\ task[t].pc = "take"
  /\ _lock' = Taken(t)
  /\ task' = [task EXCEPT ![t].pc = "taken"]
  /\ last' = Last("xSemaphoreTake", t, 0, "")
  /\ UNCHANGED <<_lockedBy, sseVars>>

\* xSemaphoreTake(_lock, portMAX_DELAY) in lock(): the task waits until the
\* semaphore is given and takes it.
xSemaphoreTake(t) ==
  /\ task[t].pc = "take"
  /\ _lock.count = 1
  /\ _lock' = Taken(t)
  /\ task' = [task EXCEPT ![t].pc = "taken"]
  /\ last' = Last("xSemaphoreTake", t, 0, "")
  /\ UNCHANGED <<_lockedBy, sseVars>>

\* The rest of lock() and of the guard's constructor: _lockedBy =
\* pxCurrentTCB, return true, and the guard's _lock = &l.
lockTaken(t) ==
  /\ task[t].pc = "taken"
  /\ _lockedBy' = pxCurrentTCB(t)
  /\ task' = [task EXCEPT ![t] = [pc |-> "idle", guards |-> Append(@.guards, TRUE)]]
  /\ last' = Last("lock", t, Len(task[t].guards) + 1, "true")
  /\ UNCHANGED <<_lock, sseVars>>

\* Mutant of guardDtor: the guard unlocks whether or not it acquired.
guardDtorAlwaysUnlocks(t) ==
  /\ task[t].pc = "idle" /\ task[t].guards # <<>>
  /\ LET n == Len(task[t].guards)
         rest == SubSeq(task[t].guards, 1, n - 1)
     IN /\ _lockedBy' = NULL
        /\ task' = [task EXCEPT ![t] = [pc |-> "give", guards |-> rest]]
        /\ last' = Last("~AsyncWebLockGuard", t, n, "unlock")
  /\ UNCHANGED <<_lock, sseVars>>

\* AsyncWebLockGuard::~AsyncWebLockGuard() of the task's innermost guard: if
\* its _lock is set, unlock() up to _lockedBy = NULL; else nothing.
guardDtor(t) ==
  /\ task[t].pc = "idle" /\ task[t].guards # <<>>
  /\ LET n == Len(task[t].guards)
         rest == SubSeq(task[t].guards, 1, n - 1)
     IN IF task[t].guards[n]
          THEN /\ _lockedBy' = NULL
               /\ task' = [task EXCEPT ![t] = [pc |-> "give", guards |-> rest]]
               /\ last' = Last("~AsyncWebLockGuard", t, n, "unlock")
          ELSE /\ task' = [task EXCEPT ![t].guards = rest]
               /\ last' = Last("~AsyncWebLockGuard", t, n, "")
               /\ UNCHANGED _lockedBy
  /\ UNCHANGED <<_lock, sseVars>>

\* xSemaphoreGive(_lock) in unlock(): the semaphore can be taken again.
xSemaphoreGive(t) ==
  /\ task[t].pc = "give"
  /\ _lock' = Given
  /\ task' = [task EXCEPT ![t].pc = "idle"]
  /\ last' = Last("unlock", t, 0, "")
  /\ UNCHANGED <<_lockedBy, sseVars>>

\* ---------------------------------------------------------- specifications

\* General workload on one session: few messages of every length.
Next ==
  \/ \E s \in SoloSessions, ok \in BOOLEAN : handleRequest(s, ok)
  \/ \E s \in SoloSessions, len \in AckLens, room \in 0..MaxSpace :
       _ack(s, len, room)
  \/ \E s \in SoloSessions, len \in 0..MaxLen, ok \in BOOLEAN :
       nQueued[s] < MaxWrites /\ write(s, len, ok)
  \/ \E s \in SoloSessions : \E len \in 0..tcp[s].unacked : _onAck(s, len)
  \/ \E s \in SoloSessions : _onPoll(s)
  \/ \E s \in SoloSessions : _onTimeout(s)
  \/ \E s \in SoloSessions : TransportDrop(s)
  \/ \E s \in SoloSessions, room \in 0..MaxSpace : TransportSpace(s, room)
  \/ \E s \in SoloSessions : _onDisconnect(s)

Spec == Init /\ [][Next]_vars

\* The same workload with the event loop's scheduling: a transport that was
\* closed delivers its disconnect notification.
SpecTimeout ==
  /\ Init /\ [][Next]_vars
  /\ \A s \in SoloSessions : WF_vars(_onDisconnect(s))

\* The same workload on a transport whose send buffer gets free again and
\* again and which is polled while it is free.
SpecLive ==
  /\ Init /\ [][Next]_vars
  /\ \A s \in SoloSessions : SF_vars(TransportSpace(s, MaxSpace))
  /\ \A s \in SoloSessions : SF_vars(tcp[s].space = MaxSpace /\ _onPoll(s))

\* Burst workload on one session: more equal messages than the queue holds.
NextBurst ==
  \/ \E s \in SoloSessions, ok \in BOOLEAN : handleRequest(s, ok)
  \/ \E s \in SoloSessions, len \in AckLens, room \in BurstSpaces :
       _ack(s, len, room)
  \/ \E s \in SoloSessions, len \in BurstLens :
       /\ nQueued[s] < SSE_MAX_QUEUED_MESSAGES + BurstExtra
       /\ write(s, len, TRUE)
  \/ \E s \in SoloSessions, len \in BurstAcks : _onAck(s, len)
  \/ \E s \in SoloSessions : _onPoll(s)
  \/ \E s \in SoloSessions : _onTimeout(s)
  \/ \E s \in SoloSessions : TransportDrop(s)
  \/ \E s \in SoloSessions, room \in BurstSpaces : TransportSpace(s, room)
  \/ \E s \in SoloSessions : _onDisconnect(s)

SpecBurst == Init /\ [][NextBurst]_vars

\* Admission on two requests, with credentials set and cleared, and the end
\* of the sessions admitted.
NextAdmit ==
  \/ \E u, p \in BOOLEAN : setAuthentication(u, p)
  \/ \E s \in Sessions, ok \in BOOLEAN : handleRequest(s, ok)
  \/ \E s \in Sessions, len \in AckLens, room \in BurstSpaces :
       _ack(s, len, room)
  \/ \E s \in Sessions : _onTimeout(s)
  \/ \E s \in Sessions : TransportDrop(s)
  \/ \E s \in Sessions : _onDisconnect(s)

SpecAdmit == Init /\ [][NextAdmit]_vars

\* Admission with an admission callback configured or not, followed by the
\* transport's callbacks on the admitted sessions.
NextConnect ==
  \/ \E cb \in ConnectCbs : onConnect(cb)
  \/ \E s \in Sessions : handleRequest(s, TRUE)
  \/ \E s \in Sessions, len \in AckLens, room \in HubSpaces :
       _ack(s, len, room)
  \/ \E s \in Sessions : \E len \in 1..tcp[s].unacked : _onAck(s, len)
  \/ \E s \in Sessions : _onPoll(s)
  \/ \E s \in Sessions, room \in HubSpaces : TransportSpace(s, room)
  \/ \E s \in Sessions : _onTimeout(s)
  \/ \E s \in Sessions : _onDisconnect(s)

SpecConnect == Init /\ [][NextConnect]_vars

\* Events sent to one session, with and without a message, on a transport
\* that has room for a whole frame or none.
NextSend ==
  \/ \E s \in SoloSessions : handleRequest(s, TRUE)
  \/ \E s \in SoloSessions, len \in AckLens, room \in {0, SendRoom} :
       _ack(s, len, room)
  \/ \E s \in SoloSessions, in \in SendInputs :
       /\ nQueued[s] < MaxSends
       /\ clientSend(s, in.message, in.event, in.id, in.reconnect)
  \/ \E s \in SoloSessions :
       tcp[s].unacked > 0 /\ _onAck(s, tcp[s].unacked)
  \/ \E s \in SoloSessions : _onPoll(s)
  \/ \E s \in SoloSessions, room \in {0, SendRoom} : TransportSpace(s, room)
  \/ \E s \in SoloSessions : TransportDrop(s)
  \/ \E s \in SoloSessions : _onDisconnect(s)

SpecSend == Init /\ [][NextSend]_vars

\* Tasks that take and release the lock through guards, preempting one
\* another between any two accesses to the lock.
NextLock ==
  \/ \E t \in Tasks : AsyncWebLockGuard(t)
  \/ \E t \in Tasks : xSemaphoreTake(t)
  \/ \E t \in Tasks : lockTaken(t)
  \/ \E t \in Tasks : guardDtor(t)
  \/ \E t \in Tasks : xSemaphoreGive(t)

SpecLock == Init /\ [][NextLock]_vars

\* A Hub with two sessions: broadcasts and direct writes of a few short
\* frames, on transports that are stalled or open.
NextHub ==
  \/ \E s \in Sessions : handleRequest(s, TRUE)
  \/ \E s \in Sessions, room \in HubSpaces : _ack(s, 1, room)
  \/ \E len \in HubLens, oks \in HubAllocs :
       /\ \A s \in Sessions : nQueued[s] \in HubIds
       /\ hubSend(len, oks)
  \/ \E s \in Sessions, len \in HubLens :
       nQueued[s] \in HubIds /\ write(s, len, TRUE)
  \/ \E s \in Sessions : \E len \in 1..tcp[s].unacked : _onAck(s, len)
  \/ \E s \in Sessions : _onPoll(s)
  \/ \E s \in Sessions : _onTimeout(s)
  \/ \E s \in Sessions : TransportDrop(s)
  \/ \E s \in Sessions, room \in HubSpaces : TransportSpace(s, room)
  \/ \E s \in Sessions : _onDisconnect(s)
  \/ hubClose

SpecHub == Init /\ [][NextHub]_vars

\* A Hub with two sessions, the first of them flooded by direct writes and
\* broadcasts beyond its queue cap while the second holds a few frames.
NextFlood ==
  \/ \E s \in Sessions : handleRequest(s, TRUE)
  \/ \E s \in Sessions, room \in BurstSpaces : _ack(s, 1, room)
  \/ \E len \in BurstLens :
       /\ nQueued[1] < SSE_MAX_QUEUED_MESSAGES + BurstExtra
       /\ nQueued[2] \in HubIds
       /\ hubSend(len, Sessions)
  \/ \E len \in BurstLens :
       /\ nQueued[1] < SSE_MAX_QUEUED_MESSAGES + BurstExtra
       /\ write(1, len, TRUE)
  \/ \E s \in Sessions, len \in BurstAcks : _onAck(s, len)
  \/ \E s \in Sessions : _onPoll(s)
  \/ \E s \in Sessions : _onTimeout(s)
  \/ \E s \in Sessions : _onDisconnect(s)

SpecFlood == Init /\ [][NextFlood]_vars

\* The encoder alone, on every input of the encoder workload.
InitEnc ==
  /\ _clients = <<>>
  /\ life = [s \in Sessions |-> "unborn"]
  /\ _client = [s \in Sessions |-> FALSE]
  /\ _messageQueue = [s \in Sessions |-> <<>>]
  /\ tcp = [s \in Sessions |->
              [connected |-> FALSE, space |-> 0, unacked |-> 0, closing |-> FALSE,
               taken |-> 0]]
  /\ nQueued = [s \in Sessions |-> 0]
  /\ bytesQueued = [s \in Sessions |-> 0]
  /\ bytesAcked = [s \in Sessions |-> 0]
  /\ last = Last("init", 0, 0, "")
  /\ resp = [s \in Sessions |-> "none"]
  /\ _username = FALSE
  /\ _password = FALSE
  /\ _connectcb = NoCallback
  /\ AsyncWebLock
  /\ enc \in {[called |-> FALSE, message |-> message, event |-> event,
                id |-> id, reconnect |-> reconnect, ldataOk |-> ldataOk,
                ev |-> <<>>] :
               message \in EncMessages, event \in EncEvents, id \in EncIds,
               reconnect \in EncRetries, ldataOk \in BOOLEAN}

NextEnc == Encode

SpecEnc == InitEnc /\ [][NextEnc]_vars

\* ------------------------------------------------------------ observations

\* The bytes of the messages of q not handed to the transport yet.
RECURSIVE UnsentBytes(_)
UnsentBytes(q) ==
  IF q = <<>> THEN 0
  ELSE (Head(q)._len - Head(q).given) + UnsentBytes(Tail(q))

\* The character c is a line break; the string s holds none.
IsBreak(c) == c \in {CR, LF}
BreakFree(s) == \A i \in DOMAIN s : ~IsBreak(s[i])

\* The pieces of msg between its line separators, cur being the piece read
\* so far: a separator is one line break, or two different ones in a row.
RECURSIVE RefSplit(_, _)
RefSplit(msg, cur) ==
  IF msg = <<>> THEN <<cur>>
  ELSE IF IsBreak(msg[1])
    THEN LET pair == Len(msg) >= 2 /\ IsBreak(msg[2]) /\ msg[2] # msg[1]
             rest == IF pair THEN Tail(Tail(msg)) ELSE Tail(msg)
         IN <<cur>> \o RefSplit(rest, <<>>)
  ELSE RefSplit(Tail(msg), Append(cur, msg[1]))

\* The lines of msg: its pieces, a separator at the very end closing the last
\* line without opening another; the empty message is one empty line.
RefLines(msg) ==
  LET ps == RefSplit(msg, <<>>) IN
  IF Len(ps) > 1 /\ ps[Len(ps)] = <<>> THEN SubSeq(ps, 1, Len(ps) - 1) ELSE ps

\* The data entries of a list of lines, one after the other.
RECURSIVE RefData(_)
RefData(lines) ==
  IF lines = <<>> THEN <<>>
  ELSE DATA \o Head(lines) \o CRLF \o RefData(Tail(lines))

\* The frame of the wire format for a message with its event name, id and
\* retry time.
RefFrame(msg, event, id, reconnect) ==
  (IF reconnect # 0 THEN RETRY \o ToDec(reconnect) \o CRLF ELSE <<>>)
  \o (IF id # 0 THEN ID \o ToDec(id) \o CRLF ELSE <<>>)
  \o (IF ~event.null THEN EVENT \o event.s \o CRLF ELSE <<>>)
  \o RefData(RefLines(msg)) \o CRLF

\* A receiver's view of a frame: its lines, each ended by CR LF.
RECURSIVE FrameLines(_, _)
FrameLines(ev, cur) ==
  IF ev = <<>> THEN (IF cur = <<>> THEN <<>> ELSE <<cur>>)
  ELSE IF Len(ev) >= 2 /\ ev[1] = CR /\ ev[2] = LF
    THEN <<cur>> \o FrameLines(Tail(Tail(ev)), <<>>)
  ELSE FrameLines(Tail(ev), Append(cur, ev[1]))

\* The payloads of the data lines of a frame, in order.
IsData(l) == Len(l) >= Len(DATA) /\ SubSeq(l, 1, Len(DATA)) = DATA
ParseData(ev) ==
  LET ds == SelectSeq(FrameLines(ev, <<>>), IsData) IN
  [i \in 1..Len(ds) |-> SubSeq(ds[i], Len(DATA) + 1, Len(ds[i]))]

\* Lines joined by the terminator T, and a message cut at every T.
RECURSIVE Join(_, _)
Join(lines, T) ==
  IF lines = <<>> THEN <<>>
  ELSE IF Len(lines) = 1 THEN lines[1]
  ELSE lines[1] \o T \o Join(Tail(lines), T)

RECURSIVE SplitOn(_, _, _)
SplitOn(msg, T, cur) ==
  IF msg = <<>> THEN <<cur>>
  ELSE IF Len(msg) >= Len(T) /\ SubSeq(msg, 1, Len(T)) = T
    THEN <<cur>> \o SplitOn(SubSeq(msg, Len(T) + 1, Len(msg)), T, <<>>)
  ELSE SplitOn(Tail(msg), T, Append(cur, msg[1]))

\* The line terminators a message may be written with.
Terminators == {<<LF>>, <<CR>>, <<CR, LF>>}

\* The encoder returned the frame of a message, its line buffers allocated.
Encoded == enc.called /\ ~enc.message.null /\ enc.ldataOk

\* What a drain pass leaves: no finished message at the front of queue q and
\* no unsent message that fits in the room left.
Drained(q, room) ==
  /\ q = <<>> \/ ~finished(q[1])
  /\ \A i \in DOMAIN q : ~sent(q[i]) => q[i]._len - q[i]._sent > room

\* Session s is in the list and connected: a broadcast writes to it.
Target(s) == s \in Registered(_clients) /\ connected(s)

\* The ids of the messages of a queue, and the message of a queue with an id.
Ids(q) == {q[i].id : i \in DOMAIN q}
Msg(q, id) == q[CHOOSE i \in DOMAIN q : q[i].id = id]

\* Bytes the transport had been given for message id of queue q (0 if absent).
GivenIn(q, id) == IF id \in Ids(q) THEN Msg(q, id).given ELSE 0

\* _acked of the message q[i] after a step that left the queue q2: a message
\* that left the queue did so finished.
AckedAfter(q, q2, i) ==
  IF q[i].id \in Ids(q2) THEN Msg(q2, q[i].id)._acked ELSE q[i]._len

RECURSIVE SumTo(_, _)
SumTo(f, n) == IF n = 0 THEN 0 ELSE f[n] + SumTo(f, n - 1)

\* The step just taken was handler op on session s.
Ran(op, s) == last'.op = op /\ last'.s = s

Max(a, b) == IF a > b THEN a ELSE b

\* The byte counts an acknowledgment may carry in the general workload.
AckCounts == 0..(MaxLen * MaxWrites)

\* The bytes handed over for the first k messages of q2 beyond what q had
\* handed over for them.
RECURSIVE GivenUpTo(_, _, _)
GivenUpTo(q, q2, k) ==
  IF k = 0 THEN 0
  ELSE (q2[k].given - GivenIn(q, q2[k].id)) + GivenUpTo(q, q2, k - 1)

\* The queue q without its message id.
RECURSIVE Without(_, _)
Without(q, id) ==
  IF q = <<>> THEN <<>>
  ELSE IF Head(q).id = id THEN Without(Tail(q), id)
  ELSE <<Head(q)>> \o Without(Tail(q), id)

\* The step just taken ran a pass over the queue of session s: an
\* on-acknowledge, an on-poll on a non-empty queue, a write that could send.
PassRan(s) ==
  \/ Ran("onAck", s)
  \/ Ran("onPoll", s) /\ _messageQueue[s] # <<>>
  \/ Ran("write", s) /\ connected(s) /\ canSend(s)

\* What holds of the messages of length 0 of session s whenever they leave:
\* they count as finished with nothing handed over, an acknowledgment goes
\* whole to the other messages, and the passes treat the other messages as
\* if the empty one were not there.
EmptyIsInert(s) ==
  LET q == _messageQueue[s]
      q2 == _messageQueue'[s]
  IN /\ \A i \in DOMAIN q :
          q[i]._len = 0 =>
            /\ finished(q[i]) /\ q[i].given = 0
            /\ \A room \in 0..MaxSpace :
                 LET r == _runQueue(q, room)
                     r0 == _runQueue(Without(q, q[i].id), room)
                 IN /\ Without(r.q, q[i].id) = r0.q
                    /\ r.space = r0.space /\ r.bytes = r0.bytes
            /\ \A n \in AckCounts :
                 Without(ackLoop(q, n), q[i].id)
                   = ackLoop(Without(q, q[i].id), n)
     /\ Ran("onAck", s) =>
          LET gain == [i \in DOMAIN q |->
                         IF q[i]._len = 0 THEN 0
                         ELSE AckedAfter(q, q2, i) - q[i]._acked]
          IN SumTo(gain, Len(q)) = last'.arg

\* ------------------------------------------------------------------ claims

\* C1: on a session that stays connected, no message leaves the queue before
\* all of its bytes have been handed to the transport.
C1_NoDropBeforeSubmitted ==
  [][\A s \in Sessions :
       connected(s)' =>
         \A i \in DOMAIN _messageQueue[s] :
           _messageQueue[s][i].id \notin Ids(_messageQueue'[s]) =>
             _messageQueue[s][i].given = _messageQueue[s][i]._len]_vars

\* C2: bytes of a message are never handed to the transport while a message
\* queued before it, and still in the queue, has unsubmitted bytes.
C2_InOrderSubmission ==
  [][\A s \in Sessions :
       \A j \in DOMAIN _messageQueue'[s] :
         _messageQueue'[s][j].given > GivenIn(_messageQueue[s], _messageQueue'[s][j].id)
           => \A i \in 1..(j - 1) :
                _messageQueue'[s][i].given = _messageQueue'[s][i]._len]_vars

\* C3: the bytes handed to the transport for one queued message never exceed
\* its length, and a message with _sent = _len is never handed over again.
C3_NoDuplicate ==
  [][\A s \in Sessions :
       \A j \in DOMAIN _messageQueue'[s] :
         LET m == _messageQueue'[s][j] IN
           /\ m.given <= m._len
           /\ (m.id \in Ids(_messageQueue[s]) /\ sent(Msg(_messageQueue[s], m.id)))
                => m.given = Msg(_messageQueue[s], m.id).given]_vars

\* C3 witness: a poll drained a queue holding a message of positive length
\* that was already fully handed over and partly acknowledged.
C3_Witness ==
  /\ last.op = "onPoll"
  /\ \E i \in DOMAIN _messageQueue[1] :
       LET m == _messageQueue[1][i] IN
         m._len > 0 /\ m.given = m._len /\ m._acked > 0

\* C4: every queued message has 0 <= _acked <= _sent <= _len.
C4_OffsetsOrdered ==
  \A s \in Sessions :
    \A i \in DOMAIN _messageQueue[s] :
      LET m == _messageQueue[s][i] IN
        0 <= m._acked /\ m._acked <= m._sent /\ m._sent <= m._len

\* C5: a session's queue never holds more than SSE_MAX_QUEUED_MESSAGES messages.
C5_QueueBounded ==
  \A s \in Sessions : Len(_messageQueue[s]) <= SSE_MAX_QUEUED_MESSAGES

\* C5 witness: a write met a full queue of a stalled client.
C5_Witness ==
  /\ last.op = "write" /\ last.res = "overflow"
  /\ Len(_messageQueue[1]) = SSE_MAX_QUEUED_MESSAGES
  /\ tcp[1].space = 0

\* C6: a write on a connected session with a full queue discards the new
\* message only: the queue keeps its messages in order (a suffix of them once
\* the drain that follows has dropped finished ones) with _len and _acked
\* unchanged, it is left exactly as it was when no drain follows, and the
\* session stays connected and registered.
C6_OverflowDiscardsNewest ==
  [][\A s \in Sessions :
       (Ran("write", s) /\ last'.res = "overflow") =>
         LET q == _messageQueue[s]
             q2 == _messageQueue'[s]
             k == Len(q) - Len(q2)
         IN /\ Len(q) = SSE_MAX_QUEUED_MESSAGES
            /\ k >= 0
            /\ \A i \in DOMAIN q2 :
                 /\ q2[i].id = q[i + k].id
                 /\ q2[i]._len = q[i + k]._len
                 /\ q2[i]._acked = q[i + k]._acked
            /\ (~canSend(s) => q2 = q)
            /\ connected(s)'
            /\ \E c \in DOMAIN _clients' : _clients'[c] = s]_vars

\* C6 witness: an overflowing write on a queue holding sent and unsent messages.
C6_Witness ==
  /\ last.op = "write" /\ last.res = "overflow"
  /\ Len(_messageQueue[1]) = SSE_MAX_QUEUED_MESSAGES
  /\ \E i, j \in DOMAIN _messageQueue[1] :
       sent(_messageQueue[1][i]) /\ ~sent(_messageQueue[1][j])

\* C7: a write on a session that is not connected leaves the queue and the
\* transport as they were: nothing is queued, drained or submitted.
C7_DeadWriteDiscards ==
  [][\A s \in Sessions :
       (Ran("write", s) /\ ~connected(s)) =>
         /\ _messageQueue'[s] = _messageQueue[s]
         /\ tcp'[s] = tcp[s]
         /\ last'.res = "dead"]_vars

\* C7 witness: a write was discarded on a dead session with unsent messages.
C7_Witness ==
  /\ last.op = "write" /\ last.res = "dead"
  /\ \E i \in DOMAIN _messageQueue[1] : ~sent(_messageQueue[1][i])

\* C8: an on-acknowledge of n bytes is spent on the queue front to back, the
\* surplus of one message going to the next, and the bytes acknowledged in
\* total never exceed the bytes queued.
C8_AckFrontToBack ==
  [][\A s \in Sessions :
       Ran("onAck", s) =>
         LET q == _messageQueue[s]
             q2 == _messageQueue'[s]
             gain == [i \in DOMAIN q |-> AckedAfter(q, q2, i) - q[i]._acked]
         IN /\ SumTo(gain, Len(q)) = last'.arg
            /\ \A i, j \in DOMAIN q :
                 (i < j /\ gain[j] > 0) => AckedAfter(q, q2, i) = q[i]._len
            /\ bytesAcked'[s] <= bytesQueued'[s]]_vars

\* C8 witness: one acknowledgment finished the front message and its surplus
\* reached the next one, which is still queued.
C8_Witness ==
  /\ last.op = "onAck" /\ last.arg > 1
  /\ _messageQueue[1] # <<>>
  /\ _messageQueue[1][1]._acked > 0
  /\ _messageQueue[1][1]._acked < last.arg

\* C9: when an on-acknowledge callback returns having brought the bytes
\* acknowledged so far to the total length of the messages queued so far (the
\* queue never having been full), the queue is empty.
C9_AckAllEmptiesQueue ==
  \A s \in Sessions :
    (last.op = "onAck" /\ last.s = s /\ bytesAcked[s] = bytesQueued[s])
      => _messageQueue[s] = <<>>

\* C9 witness: the acknowledgments covered all the bytes of several messages,
\* at least one of them of zero length.
C9_Witness ==
  /\ last.op = "onAck" /\ last.arg > 0
  /\ bytesAcked[1] = bytesQueued[1]
  /\ bytesQueued[1] > 0 /\ nQueued[1] > bytesQueued[1]

\* C10: send is all or nothing: with less room than the unsent bytes it
\* changes nothing and returns 0, otherwise it hands over all the unsent
\* bytes; no queued message is ever partly submitted.
C10_SendAtomic ==
  \A s \in Sessions :
    \A i \in DOMAIN _messageQueue[s] :
      LET m == _messageQueue[s][i]
          rem == m._len - m._sent
      IN /\ m._sent \in {0, m._len} /\ m.given \in {0, m._len}
         /\ \A room \in 0..MaxSpace :
              LET r == send(m, room) IN
                IF room < rem
                  THEN r.m = m /\ r.ret = 0 /\ r.space = room
                  ELSE /\ r.ret = rem /\ r.space = room - rem
                       /\ r.m._sent = m._len /\ r.m.given = m.given + rem

\* C10 witness: a poll drained with room left, yet a longer message stayed
\* wholly unsent behind a wholly sent one.
C10_Witness ==
  /\ last.op = "onPoll"
  /\ \E i, j \in DOMAIN _messageQueue[1] :
       /\ _messageQueue[1][i]._len > 0 /\ sent(_messageQueue[1][i])
       /\ _messageQueue[1][j]._sent = 0
       /\ _messageQueue[1][j]._len > tcp[1].space
       /\ tcp[1].space > 0

\* C11: the on-disconnect callback of a session removes it from the Hub's
\* list and releases all its queued messages without handing a byte to the
\* transport; from then on the session is never registered again, holds no
\* message and no byte is handed over for it, whatever is written or
\* broadcast afterwards.
C11_DisconnectTerminal ==
  [][\A s \in Sessions :
       /\ Ran("onDisconnect", s) =>
            /\ s \notin Registered(_clients')
            /\ _messageQueue'[s] = <<>>
            /\ tcp'[s].taken = tcp[s].taken
            /\ life'[s] = "deleted" /\ ~connected(s)'
       /\ life[s] = "deleted" =>
            /\ life'[s] = "deleted" /\ ~connected(s)'
            /\ s \notin Registered(_clients')
            /\ _messageQueue'[s] = <<>>
            /\ tcp'[s].taken = tcp[s].taken]_vars

\* C11 witness: a session was disconnected holding two messages, one of them
\* unsent, while the other session stays registered for later broadcasts.
C11_Witness ==
  /\ last.op = "onDisconnect" /\ last.s = 1 /\ last.arg = 2
  /\ tcp[1].taken = 1
  /\ life[1] = "deleted" /\ connected(2)

\* C12: a broadcast whose copies are all allocated gives every session that
\* is in the list and connected (its queue under the cap) exactly one new
\* message, last in its queue, of the frame's length, unacknowledged, unsent
\* when that session's transport cannot send; the sessions that are not
\* connected or not in the list are left as they were.
C12_HubSendEachConnected ==
  [][(last'.op = "send" /\ last'.res = "copied") =>
       \A s \in Sessions :
         LET q == _messageQueue[s]
             q2 == _messageQueue'[s]
         IN IF Target(s) /\ Len(q) < SSE_MAX_QUEUED_MESSAGES
              THEN /\ nQueued'[s] = nQueued[s] + 1
                   /\ q2 # <<>>
                   /\ Ids(q2) \ Ids(q) = {nQueued'[s]}
                   /\ q2[Len(q2)].id = nQueued'[s]
                   /\ q2[Len(q2)]._len = last'.arg
                   /\ q2[Len(q2)]._acked = 0
                   /\ q2[Len(q2)]._sent \in {0, last'.arg}
                   /\ (~canSend(s) => q2[Len(q2)]._sent = 0)
              ELSE Target(s) \/
                   (/\ q2 = q /\ tcp'[s] = tcp[s]
                    /\ nQueued'[s] = nQueued[s])]_vars

\* C12 witness: a broadcast reached two connected sessions with different
\* histories; both copies were handed to their transports.
C12_Witness ==
  /\ last.op = "send" /\ last.res = "copied"
  /\ Target(1) /\ Target(2)
  /\ nQueued[1] = 1 /\ nQueued[2] = 2
  /\ _messageQueue[1] # <<>> /\ _messageQueue[2] # <<>>
  /\ _messageQueue[1][Len(_messageQueue[1])].given = 1
  /\ _messageQueue[2][Len(_messageQueue[2])].given = 1

\* C13: a handler of one session (write, overflow, acknowledgment, poll,
\* timeout, disconnect, admission) leaves the queue, the offsets, the
\* transport and the registration of every other session unchanged, and a
\* broadcast enqueues on every connected session under the cap whatever the
\* state of the other sessions.
C13_SessionsIsolated ==
  [][/\ \A s, t \in Sessions :
          (last'.s = s /\ t # s) =>
            /\ _messageQueue'[t] = _messageQueue[t]
            /\ tcp'[t] = tcp[t]
            /\ nQueued'[t] = nQueued[t]
            /\ life'[t] = life[t]
            /\ (t \in Registered(_clients')) = (t \in Registered(_clients))
     /\ last'.op = "send" =>
          \A t \in Sessions :
            (Target(t) /\ Len(_messageQueue[t]) < SSE_MAX_QUEUED_MESSAGES) =>
              /\ nQueued'[t] = nQueued[t] + 1
              /\ nQueued'[t] \in Ids(_messageQueue'[t])]_vars

\* C13 witness: a broadcast overflowed on the stalled, full first session and
\* was queued and submitted on the second.
C13_Witness ==
  /\ last.op = "send"
  /\ Len(_messageQueue[1]) = SSE_MAX_QUEUED_MESSAGES
  /\ nQueued[1] = SSE_MAX_QUEUED_MESSAGES
  /\ tcp[1].space = 0 /\ connected(1)
  /\ nQueued[2] = 1 /\ tcp[2].taken = 1

\* C14 as stated: a broadcast submits the copy of a session with room for it
\* in the same call and leaves the copy of a session without room queued
\* with _sent = 0, and a queued message that was unsent is handed to the
\* transport by an on-poll or on-acknowledge callback only.
C14_OnlyPollOrAckSubmits ==
  [][/\ last'.op = "send" =>
          \A s \in Sessions :
            (Target(s) /\ nQueued'[s] = nQueued[s] + 1
               /\ nQueued'[s] \in Ids(_messageQueue'[s])) =>
              LET m == Msg(_messageQueue'[s], nQueued'[s]) IN
                /\ (tcp[s].space = 0 => m._sent = 0 /\ m.given = 0)
                /\ (tcp[s].space >= last'.arg + UnsentBytes(_messageQueue[s])
                      /\ last'.arg > 0)
                     => m._sent = m._len /\ m.given = m._len
     /\ \A s \in Sessions :
          \A i \in DOMAIN _messageQueue[s] :
            GivenIn(_messageQueue'[s], _messageQueue[s][i].id)
               > _messageQueue[s][i].given
              => last'.op \in {"onPoll", "onAck"}]_vars

\* C14: a broadcast submits the copy of a session with room for it in the
\* same call and leaves the copy of a session without room queued with
\* _sent = 0; that copy is handed to the transport by a later pass over the
\* queue made when the transport has room: an on-poll or on-acknowledge
\* callback, or a later write or broadcast.
C14_StalledCopyWaits ==
  [][/\ last'.op = "send" =>
          \A s \in Sessions :
            (Target(s) /\ nQueued'[s] = nQueued[s] + 1
               /\ nQueued'[s] \in Ids(_messageQueue'[s])) =>
              LET m == Msg(_messageQueue'[s], nQueued'[s]) IN
                /\ (tcp[s].space = 0 => m._sent = 0 /\ m.given = 0)
                /\ (tcp[s].space >= last'.arg + UnsentBytes(_messageQueue[s])
                      /\ last'.arg > 0)
                     => m._sent = m._len /\ m.given = m._len
     /\ \A s \in Sessions :
          \A i \in DOMAIN _messageQueue[s] :
            GivenIn(_messageQueue'[s], _messageQueue[s][i].id)
               > _messageQueue[s][i].given
              => /\ last'.op \in {"onPoll", "onAck", "write", "send"}
                 /\ last'.op \in {"onPoll", "onAck", "write"} => last'.s = s
                 /\ tcp[s].space > 0]_vars

\* C14 witness: of two connected sessions the first had no room, the second
\* had; the broadcast left the copy of the first unsent and submitted the
\* copy of the second.
C14_Witness ==
  /\ last.op = "send" /\ last.res = "copied"
  /\ Target(1) /\ Target(2)
  /\ tcp[1].space = 0 /\ tcp[1].taken = 0
  /\ Len(_messageQueue[1]) = 1 /\ _messageQueue[1][1]._sent = 0
  /\ Len(_messageQueue[2]) = 1 /\ _messageQueue[2][1]._sent = 1
  /\ tcp[2].taken = 1

\* C15: count() is the number of sessions of the Hub's list whose transport
\* is connected.
C15_CountConnected ==
  count = Cardinality({s \in Sessions :
                         s \in Registered(_clients) /\ tcp[s].connected})

\* C15 witness: of two sessions in the list one is no longer connected.
C15_Witness ==
  /\ _clients = <<1, 2>>
  /\ ~tcp[1].connected /\ tcp[2].connected
  /\ count = 1

\* C16: answering a request only moves its response to the ack-wait state,
\* creating no session; a zero-length acknowledgment creates none either; a
\* session comes to life only by the nonzero acknowledgment of a waiting
\* response, which registers it once and ends the request, so that a request
\* never yields a second session.
C16_AdmissionHandshake ==
  [][\A s \in Sessions :
       /\ (Ran("handleRequest", s) /\ last'.res = "respond") =>
            /\ resp'[s] = "RESPONSE_WAIT_ACK"
            /\ life'[s] = "unborn"
            /\ _clients' = _clients /\ tcp' = tcp
            /\ _messageQueue' = _messageQueue
       /\ Ran("respAck", s) =>
            /\ resp' = resp /\ life' = life
            /\ _clients' = _clients /\ tcp' = tcp
       /\ Ran("admit", s) =>
            /\ resp[s] = "RESPONSE_WAIT_ACK" /\ life[s] = "unborn"
            /\ life'[s] = "alive"
            /\ s \notin Registered(_clients)
            /\ _clients' = Append(_clients, s)
            /\ tcp'[s].taken = 0 /\ _messageQueue'[s] = <<>>
       /\ (life'[s] = "alive" /\ life[s] # "alive") => Ran("admit", s)
       /\ (s \in Registered(_clients') /\ s \notin Registered(_clients))
            => Ran("admit", s)]_vars

\* C16 witness: a second request was admitted next to a registered session.
C16_Witness ==
  /\ last.op = "admit" /\ last.s = 2
  /\ _clients = <<1, 2>>
  /\ resp[2] = "deleted" /\ life[2] = "alive"

\* C17: with a user name and a password configured, a request that fails
\* authentication is challenged: no response is started for it, the sessions
\* and the Hub's list are left as they were, and no session is ever created
\* for that request.
C17_AuthFailureChallenged ==
  [][\A s \in Sessions :
       /\ (Ran("handleRequest", s) /\ _username /\ _password /\ last'.arg = 0) =>
            /\ last'.res = "challenge"
            /\ resp'[s] = "challenged"
            /\ life' = life /\ _clients' = _clients
            /\ tcp' = tcp /\ _messageQueue' = _messageQueue
       /\ resp[s] = "challenged" =>
            /\ resp'[s] = "challenged" /\ life'[s] = "unborn"
            /\ s \notin Registered(_clients')]_vars

\* C17 witness: a request was challenged while another session was registered.
C17_Witness ==
  /\ last.op = "handleRequest" /\ last.res = "challenge"
  /\ resp[2] = "challenged" /\ life[2] = "unborn"
  /\ _clients = <<1>>

\* C18: the frame returned for a message is, in this order, the retry line
\* if the retry time is not 0, the id line if the id is not 0, the event line
\* if there is an event name, one data entry per line of the message (a line
\* break at the very end closes the last line), and the blank line, each
\* ended by CR LF; the two scenarios give exactly the frames stated.
C18_FrameFormat ==
  Encoded =>
    /\ enc.ev = RefFrame(enc.message.s, enc.event, enc.id, enc.reconnect)
    /\ (enc.message.s = <<"h", "e", "l", "l", "o">> /\ enc.event.null
          /\ enc.id = 0 /\ enc.reconnect = 0)
         => enc.ev = <<"d", "a", "t", "a", ":", " ", "h", "e", "l", "l", "o",
                       CR, LF, CR, LF>>
    /\ (enc.message.s = <<"l", "i", "n", "e", "1", LF, "l", "i", "n", "e", "2">>
          /\ enc.event = Str(<<"u", "p", "d", "a", "t", "e">>)
          /\ enc.id = 5 /\ enc.reconnect = 3000)
         => enc.ev = <<"r", "e", "t", "r", "y", ":", " ", "3", "0", "0", "0",
                       CR, LF,
                       "i", "d", ":", " ", "5", CR, LF,
                       "e", "v", "e", "n", "t", ":", " ",
                       "u", "p", "d", "a", "t", "e", CR, LF,
                       "d", "a", "t", "a", ":", " ",
                       "l", "i", "n", "e", "1", CR, LF,
                       "d", "a", "t", "a", ":", " ",
                       "l", "i", "n", "e", "2", CR, LF,
                       CR, LF>>

\* C18 witness: the second scenario was encoded.
C18_Witness ==
  /\ Encoded
  /\ enc.message.s = <<"l", "i", "n", "e", "1", LF, "l", "i", "n", "e", "2">>
  /\ ~enc.event.null /\ enc.id = 5 /\ enc.reconnect = 3000
  /\ Len(ParseData(enc.ev)) = 2

\* C19: for every message made of lines joined by one terminator (LF, CR or
\* CR LF), the payloads of the data lines of its frame, joined again by that
\* terminator, are the message.
C19_RoundTrip ==
  Encoded =>
    \A T \in Terminators :
      LET lines == SplitOn(enc.message.s, T, <<>>) IN
        (\A i \in DOMAIN lines : BreakFree(lines[i]))
          => Join(ParseData(enc.ev), T) = enc.message.s

\* C20: the data lines of the frame are the lines of the message cut at CR,
\* LF and at CR LF or LF CR taken as one separator: two lines around such a
\* pair give two data lines and no empty one between them, a message without
\* a line break gives one data line, the empty message one empty data line,
\* and the frame ends with the blank line.
C20_LineSplitting ==
  Encoded =>
    LET msg == enc.message.s
        ds == ParseData(enc.ev)
        n == Len(enc.ev)
    IN /\ ds = RefLines(msg)
       /\ \A i \in 1..(Len(msg) - 2) :
            (/\ IsBreak(msg[i]) /\ IsBreak(msg[i + 1]) /\ msg[i] # msg[i + 1]
             /\ BreakFree(SubSeq(msg, 1, i - 1))
             /\ BreakFree(SubSeq(msg, i + 2, Len(msg))))
            => ds = <<SubSeq(msg, 1, i - 1), SubSeq(msg, i + 2, Len(msg))>>
       /\ BreakFree(msg) => ds = <<msg>>
       /\ msg = <<>> => enc.ev = evHead(enc.event, enc.id, enc.reconnect)
                                   \o DATA \o CRLF \o CRLF
       /\ n >= 4 /\ SubSeq(enc.ev, n - 3, n) = CRLF \o CRLF

\* C20 witness: a message of two lines around a CR LF pair was encoded.
C20_Witness ==
  /\ Encoded
  /\ enc.message.s = <<"a", CR, LF, "a">>
  /\ ParseData(enc.ev) = <<(<<"a">>), (<<"a">>)>>

\* C24: for every queued message and every byte count n, ack(n) leaves
\* _acked at min(_len, _acked + n) and returns max(0, _acked + n - _len): 0
\* exactly when the bytes fit, the surplus otherwise, the bytes consumed and
\* the surplus adding up to n.
C24_AckArithmetic ==
  \A s \in Sessions :
    \A i \in DOMAIN _messageQueue[s] :
      \A n \in AckCounts :
        LET m == _messageQueue[s][i]
            r == ack(m, n)
        IN /\ r.m._acked = Min(m._len, m._acked + n)
           /\ r.extra = Max(0, m._acked + n - m._len)
           /\ (r.extra = 0) = (m._acked + n <= m._len)
           /\ (r.m._acked - m._acked) + r.extra = n
           /\ r.m._len = m._len /\ r.m._sent = m._sent /\ r.m.id = m.id

\* C24 witness: an acknowledgment left the front message partly acknowledged
\* with a second message queued behind it.
C24_Witness ==
  /\ last.op = "onAck" /\ last.arg = 1
  /\ Len(_messageQueue[1]) >= 2
  /\ _messageQueue[1][1]._acked = 1 /\ _messageQueue[1][1]._len = 2

\* C26: a drain pass with any room drops exactly the finished messages at
\* the front, keeps the others in order, and hands over for each message not
\* yet sent either nothing or all its unsent bytes, all of them exactly when
\* they fit in the room left by the messages before it in the pass, a
\* message that did not fit not ending the pass.
C26_DrainPass ==
  \A s \in Sessions :
    \A room \in 0..MaxSpace :
      LET q == _messageQueue[s]
          r == _runQueue(q, room)
          k == Len(q) - Len(r.q)
      IN /\ k >= 0
         /\ \A i \in 1..k : finished(q[i])
         /\ r.q # <<>> => ~finished(q[k + 1])
         /\ \A i \in DOMAIN r.q :
              LET m == q[i + k]
                  m2 == r.q[i]
                  left == room - GivenUpTo(q, r.q, i - 1)
              IN /\ m2.id = m.id /\ m2._len = m._len /\ m2._acked = m._acked
                 /\ IF ~sent(m) /\ left >= m._len - m._sent
                      THEN /\ m2._sent = m._len
                           /\ m2.given = m.given + (m._len - m._sent)
                      ELSE m2 = m
         /\ r.bytes = GivenUpTo(q, r.q, Len(r.q))
         /\ r.space = room - r.bytes

\* C26 witness: a poll left a message unsent for lack of room and handed
\* over a later one.
C26_Witness ==
  /\ last.op = "onPoll" /\ tcp[1].space = 0
  /\ \E i, j \in DOMAIN _messageQueue[1] :
       /\ i < j
       /\ _messageQueue[1][i]._sent = 0 /\ _messageQueue[1][i]._len = 2
       /\ _messageQueue[1][j]._len = 1 /\ _messageQueue[1][j].given = 1
       /\ _messageQueue[1][j]._acked = 0

\* C25: a write on a connected session leaves the queue drained when the
\* transport could send, the message queued or discarded, and otherwise only
\* queues or discards the message; an on-acknowledge always leaves the queue
\* drained; an on-poll leaves a non-empty queue drained and changes nothing
\* of a session whose queue is empty.
C25_DrainTriggers ==
  [][\A s \in Sessions :
       LET q == _messageQueue[s]
           q2 == _messageQueue'[s]
       IN /\ (Ran("write", s) /\ connected(s)) =>
               LET q1 == IF last'.res = "queued"
                           THEN Append(q, NewMessage(nQueued[s] + 1,
                                                     last'.arg, TRUE))
                           ELSE q
               IN /\ last'.res = "overflow" <=> Len(q) >= SSE_MAX_QUEUED_MESSAGES
                  /\ IF canSend(s)
                       THEN /\ Drained(q2, tcp'[s].space)
                            /\ tcp'[s].taken - tcp[s].taken
                                 = tcp[s].space - tcp'[s].space
                            /\ Len(q2) <= Len(q1)
                       ELSE q2 = q1 /\ tcp'[s] = tcp[s]
          /\ Ran("onAck", s) => Drained(q2, tcp'[s].space)
          /\ Ran("onPoll", s) =>
               IF q = <<>>
                 THEN q2 = q /\ tcp'[s] = tcp[s]
                 ELSE Drained(q2, tcp'[s].space)]_vars

\* C25 witness: a write discarded for overflow ran the queue, which handed
\* the first messages of the full queue to the transport.
C25_Witness ==
  /\ last.op = "write" /\ last.res = "overflow"
  /\ Len(_messageQueue[1]) = SSE_MAX_QUEUED_MESSAGES
  /\ tcp[1].space = 0 /\ tcp[1].taken = MaxSpace /\ tcp[1].unacked = MaxSpace
  /\ _messageQueue[1][1].id = 1 /\ _messageQueue[1][1].given = 1

\* C28 as stated: a message of length 0 is inert and the next pass over the
\* queue removes it.
C28_RemovedByNextPass ==
  [][\A s \in Sessions :
       /\ EmptyIsInert(s)
       /\ PassRan(s) =>
            \A i \in DOMAIN _messageQueue[s] :
              _messageQueue[s][i]._len = 0 =>
                _messageQueue[s][i].id \notin Ids(_messageQueue'[s])]_vars

\* C28: a message whose buffer could not be allocated has length 0: it
\* counts as finished, nothing is handed to the transport for it, it takes
\* nothing of an acknowledgment and does not change what the passes do to
\* the other messages; a pass removes it when it is at the front of the
\* queue, and it stays only behind an earlier message that stays.
C28_EmptyMessageDropped ==
  [][\A s \in Sessions :
       /\ EmptyIsInert(s)
       /\ PassRan(s) =>
            \A i \in DOMAIN _messageQueue[s] :
              _messageQueue[s][i]._len = 0 =>
                /\ i = 1 => _messageQueue[s][i].id \notin Ids(_messageQueue'[s])
                /\ _messageQueue[s][i].id \in Ids(_messageQueue'[s]) =>
                     \E j \in 1..(i - 1) :
                       /\ _messageQueue[s][j].id \in Ids(_messageQueue'[s])
                       /\ _messageQueue[s][j]._len > 0]_vars

\* C28 witness: a poll ran the queue and a message of length 0 stayed behind
\* a message still unacknowledged.
C28_Witness ==
  /\ last.op = "onPoll"
  /\ Len(_messageQueue[1]) = 2
  /\ _messageQueue[1][1]._len > 0 /\ ~finished(_messageQueue[1][1])
  /\ _messageQueue[1][2]._len = 0

\* C30: the frame of a present message holds at least one data line, ends
\* with CR LF CR LF and holds CR LF CR LF nowhere before its end.
C30_OneEventPerFrame ==
  Encoded =>
    LET n == Len(enc.ev) IN
      /\ Len(ParseData(enc.ev)) >= 1
      /\ n >= Len(DATA) + 4
      /\ {p \in 1..(n - 3) : SubSeq(enc.ev, p, p + 3) = CRLF \o CRLF} = {n - 3}

\* C30 witness: a message of blank lines only, ending with a line break, was
\* encoded together with an event name, an id and a retry time.
C30_Witness ==
  /\ Encoded
  /\ enc.message.s = <<CR, LF, CR, LF>>
  /\ ~enc.event.null /\ enc.id # 0 /\ enc.reconnect # 0
  /\ Len(ParseData(enc.ev)) = 2

\* C22: Hub close() closes the transport of every session of the list that
\* is connected and nothing else: the list, the sessions, their queues and
\* the transports of the other sessions stay as they were; a session leaves
\* the list only by its own on-disconnect callback.
C22_CloseLeavesList ==
  [][/\ Ran("close", 0) =>
          /\ _clients' = _clients /\ life' = life /\ _client' = _client
          /\ _messageQueue' = _messageQueue
          /\ \A s \in Sessions :
               IF Target(s)
                 THEN /\ ~tcp'[s].connected /\ tcp'[s].closing
                      /\ tcp'[s].taken = tcp[s].taken
                 ELSE tcp'[s] = tcp[s]
     /\ \A s \in Sessions :
          (s \in Registered(_clients) /\ s \notin Registered(_clients'))
            => Ran("onDisconnect", s)]_vars

\* C22 witness: close() closed two connected sessions, one of them with a
\* message queued; both are still in the list.
C22_Witness ==
  /\ last.op = "close"
  /\ _clients = <<1, 2>>
  /\ tcp[1].closing /\ tcp[2].closing
  /\ life[1] = "alive" /\ life[2] = "alive"
  /\ _messageQueue[2] # <<>>

\* C27: whenever the Hub's list is not empty one of its sessions is
\* connected, so that avgPacketsWaiting never divides by zero.
C27_DivisorNonzero ==
  /\ _clients # <<>> => \E s \in Registered(_clients) : connected(s)
  /\ _clients # <<>> => nConnectedClients # 0
  /\ DivideByZero \notin avgPacketsWaiting

\* C21: the on-timeout callback closes the session's transport and leaves
\* the session in the list with its queue; the on-disconnect callback takes
\* it off the list and releases the queue; with the disconnect notification
\* delivered, every session that timed out is eventually not in the list.
C21_TimeoutFatal ==
  /\ [][\A s \in SoloSessions :
          /\ Ran("onTimeout", s) =>
               /\ ~connected(s)' /\ tcp'[s].closing
               /\ _clients' = _clients /\ life' = life
               /\ _messageQueue' = _messageQueue
          /\ Ran("onDisconnect", s) =>
               /\ s \notin Registered(_clients')
               /\ _messageQueue'[s] = <<>>]_vars
  /\ \A s \in SoloSessions :
       (last.op = "onTimeout" /\ last.s = s) ~> (s \notin Registered(_clients))

\* C21 witness: a session timed out with a message it had not yet sent in
\* its queue; it is closed and still in the list.
C21_Witness ==
  /\ last.op = "onTimeout" /\ last.s = 1
  /\ 1 \in Registered(_clients) /\ ~connected(1) /\ tcp[1].closing
  /\ \E i \in DOMAIN _messageQueue[1] : _messageQueue[1][i].given = 0

\* C23: on a session that stays connected, polled again and again with the
\* send buffer free, every message that is in the queue is eventually handed
\* to the transport in full.
C23_EverySubmitted ==
  \A s \in SoloSessions : \A id \in 1..MaxWrites :
    (id \in Ids(_messageQueue[s]))
      ~> \/ /\ id \in Ids(_messageQueue[s])
             /\ Msg(_messageQueue[s], id).given = Msg(_messageQueue[s], id)._len
         \/ ~connected(s)

\* C29: when an admission callback is configured, admitting a session
\* invokes it once, with the session already in the Hub's list and its
\* transport callbacks in place: the event the callback sends is in the
\* session's queue, submitted if the transport had room and waiting for a
\* poll or an acknowledgment if not; with no callback the session is only
\* registered.  Nothing else invokes the callback.
C29_ConnectCallback ==
  [][\A s \in Sessions :
       /\ (Ran("admit", s) /\ ~_connectcb.null) =>
            /\ last'.arg = 1 /\ last'.res = "listed"
            /\ Target(s)' /\ life'[s] = "alive"
            /\ _clients' = Append(_clients, s)
            /\ Ids(_messageQueue'[s]) = {1}
            /\ Msg(_messageQueue'[s], 1)._len = _connectcb.len
            /\ Msg(_messageQueue'[s], 1)._acked = 0
            /\ Msg(_messageQueue'[s], 1).given
                 = IF tcp'[s].space + tcp'[s].taken >= _connectcb.len
                     THEN _connectcb.len ELSE 0
            /\ tcp'[s].taken = Msg(_messageQueue'[s], 1).given
            /\ nQueued'[s] = 1
       /\ (Ran("admit", s) /\ _connectcb.null) =>
            /\ last'.arg = 0
            /\ Target(s)' /\ _clients' = Append(_clients, s)
            /\ _messageQueue'[s] = <<>> /\ nQueued'[s] = 0
            /\ tcp'[s].taken = 0
       /\ nQueued'[s] > nQueued[s] => Ran("admit", s)
       /\ \A r \in Sessions \ {s} :
            Ran("admit", s) =>
              /\ _messageQueue'[r] = _messageQueue[r]
              /\ nQueued'[r] = nQueued[r] /\ tcp'[r] = tcp[r]]_vars

\* C29 witness: the second session was admitted with a callback configured
\* on a transport without room; the callback's event waits in its queue
\* while the first session, admitted before the callback was set, has none.
C29_Witness ==
  /\ last.op = "admit" /\ last.s = 2 /\ last.arg = 1
  /\ _clients = <<1, 2>>
  /\ Len(_messageQueue[2]) = 1 /\ _messageQueue[2][1].given = 0
  /\ nQueued[1] = 0 /\ connected(1)

\* The lines of a frame that are not data lines.
IsField(l, NAME) == Len(l) >= Len(NAME) /\ SubSeq(l, 1, Len(NAME)) = NAME
FieldCount(event, id, reconnect) ==
  (IF reconnect # 0 THEN 1 ELSE 0) + (IF id # 0 THEN 1 ELSE 0)
    + (IF ~event.null THEN 1 ELSE 0)

\* C31: a send without a message makes a frame of the retry, id and event
\* lines that apply and nothing else: no data line, no blank line at the
\* end, the empty frame when no field applies; the frame is queued on a
\* connected session as a message of its length like any other.
C31_NullMessageFrame ==
  [][\A s \in SoloSessions :
       (Ran("clientSend", s) /\ enc'.message.null) =>
         LET ev == enc'.ev
             lines == FrameLines(ev, <<>>)
             n == nQueued[s] + 1
         IN /\ Len(lines) = FieldCount(enc'.event, enc'.id, enc'.reconnect)
            /\ ParseData(ev) = <<>>
            /\ \A i \in DOMAIN lines :
                 /\ lines[i] # <<>>
                 /\ IsField(lines[i], RETRY) \/ IsField(lines[i], ID)
                      \/ IsField(lines[i], EVENT)
            /\ (enc'.reconnect # 0) = (\E i \in DOMAIN lines : IsField(lines[i], RETRY))
            /\ (enc'.id # 0) = (\E i \in DOMAIN lines : IsField(lines[i], ID))
            /\ (~enc'.event.null) = (\E i \in DOMAIN lines : IsField(lines[i], EVENT))
            /\ Len(ev) < 4 \/ SubSeq(ev, Len(ev) - 3, Len(ev)) # CRLF \o CRLF
            /\ (lines = <<>>) = (ev = <<>>)
            /\ last'.arg = Len(ev)
            /\ connected(s) =>
                 /\ last'.res = "queued" /\ nQueued'[s] = n
                 /\ bytesQueued'[s] = bytesQueued[s] + Len(ev)
                 /\ (ev # <<>> \/ ~canSend(s)) =>
                      /\ n \in Ids(_messageQueue'[s])
                      /\ Msg(_messageQueue'[s], n)._len = Len(ev)
                      /\ Msg(_messageQueue'[s], n)._acked = 0]_vars

\* C31 witness: a send without message, event, id and retry time left the
\* empty frame as a message of length 0 in the queue of a session whose
\* transport had no room, behind a frame of fields only.
C31_Witness ==
  /\ last.op = "clientSend" /\ last.s = 1 /\ last.arg = 0
  /\ enc.message.null /\ enc.ev = <<>>
  /\ Len(_messageQueue[1]) = 2
  /\ _messageQueue[1][1]._len > 0 /\ _messageQueue[1][2]._len = 0

\* C32: the Hub's list holds no session twice; every session in it is alive
\* and has its transport handle; a session whose on-disconnect callback has
\* run is not in it; removing a session that is not in the list leaves the
\* list as it is.
C32_ListWellFormed ==
  /\ \A i, j \in DOMAIN _clients : _clients[i] = _clients[j] => i = j
  /\ \A s \in Registered(_clients) : _client[s] /\ life[s] = "alive"
  /\ \A s \in Sessions :
       (life[s] = "deleted" \/ (life[s] # "unborn" /\ ~_client[s]))
         => s \notin Registered(_clients)
  /\ \A s \in Sessions \ Registered(_clients) : remove(_clients, s) = _clients

\* C32 witness: of two sessions admitted the first was disconnected and the
\* second, admitted after it, is the only one in the list.
C32_Witness ==
  /\ _clients = <<2>>
  /\ life[1] = "deleted" /\ ~_client[1]
  /\ life[2] = "alive" /\ _client[2]
  /\ last.op = "onDisconnect" /\ last.s = 1

\* Task t is between a lock() that returned true and the matching unlock():
\* one of its guards acquired the lock.
Holds(t) == \E i \in DOMAIN task[t].guards : task[t].guards[i]

\* C33: at most one task is between a lock() that returned true and its
\* unlock(); that task has the semaphore and is the recorded owner; the
\* recorded owner is NULL or the task that has the semaphore.
C33_MutualExclusion ==
  /\ Cardinality({t \in Tasks : Holds(t)}) <= 1
  /\ \A t \in Tasks : Holds(t) => (_lock = Taken(t) /\ _lockedBy = t)
  /\ _lockedBy \in {NULL, _lock.holder}
  /\ _lock.count = 1 => _lockedBy = NULL

\* C33 witness: one task holds the lock while another, which has just
\* called lock(), waits for the semaphore and the third is outside.
C33_Witness ==
  /\ Holds(1) /\ _lockedBy = 1
  /\ task[2].pc = "take"
  /\ last.op = "lock" /\ last.s = 2
  /\ task[3].guards = <<>> /\ task[3].pc = "idle"

\* C34: lock() called by the task that holds the lock returns false at once
\* and changes nothing, and it returns false for no other task, so that a
\* task never waits for the semaphore it has itself; the destructor of a
\* guard that did not acquire leaves the lock held by the task's outer
\* guard; only the outermost guard acquired, and once it is destroyed the
\* semaphore is given, no owner is recorded and the task holds nothing.
C34_GuardReentry ==
  /\ [](\A t \in Tasks : task[t].pc \in {"take", "taken"} => ~Holds(t))
  /\ [][\A t \in Tasks :
          LET n == Len(task[t].guards) IN
          /\ (Ran("lock", t) /\ Holds(t)) =>
               /\ last'.res = "false"
               /\ task'[t] = [pc |-> "idle",
                              guards |-> Append(task[t].guards, FALSE)]
               /\ _lock' = _lock /\ _lockedBy' = _lockedBy
          /\ (Ran("lock", t) /\ last'.res = "false") => Holds(t)
          /\ (Ran("lock", t) /\ last'.res = "true") =>
               /\ task[t].guards = <<>> /\ task'[t].guards = <<TRUE>>
               /\ _lock' = Taken(t) /\ _lockedBy' = t
          /\ (Ran("~AsyncWebLockGuard", t) /\ ~task[t].guards[n]) =>
               /\ n > 1 /\ Holds(t)'
               /\ _lock' = _lock /\ _lock = Taken(t)
               /\ _lockedBy' = _lockedBy /\ _lockedBy = t
               /\ task'[t].pc = "idle"
          /\ (Ran("~AsyncWebLockGuard", t) /\ task[t].guards[n]) =>
               /\ n = 1 /\ task'[t].guards = <<>>
               /\ _lockedBy' = NULL /\ task'[t].pc = "give"
          /\ Ran("unlock", t) =>
               /\ _lock' = Given /\ _lockedBy' = NULL
               /\ task'[t] = [pc |-> "idle", guards |-> <<>>]
          /\ \A u \in Tasks \ {t} :
               (Ran("lock", t) \/ Ran("~AsyncWebLockGuard", t)
                  \/ Ran("unlock", t)) => task'[u] = task[u]]_vars

\* C34 witness: a task destroyed its nested guard and still holds the lock
\* through its outer guard, another task waiting for the semaphore.
C34_Witness ==
  /\ last.op = "~AsyncWebLockGuard" /\ last.s = 1 /\ last.arg = 2
  /\ task[1].guards = <<TRUE>> /\ task[1].pc = "idle"
  /\ _lock = Taken(1) /\ _lockedBy = 1
  /\ task[3].pc = "take"

====
